---- MODULE Spec2Model ----
(***************************************************************************)
(* Model of mjun0812/setup-cuda: the version catalog builder               *)
(* (fetchAvailableCudaVersions and its three fetchers), the version        *)
(* resolver (findCudaVersion), the entry point (run) with its installers,  *)
(* the installer locators (getCudaLocalInstallerUrl,                       *)
(* findCudaNetworkInstallerWindows, findCudaRepoAndPackageLinux and its    *)
(* helpers), installCudaLocal, and the library functions compareVersions,  *)
(* normalizeCudaVersion and findRepoFilename.                              *)
(*                                                                         *)
(* Strings are sequences of one-character strings, so that split,          *)
(* startsWith, Number and the regular expressions of the source are        *)
(* computed character by character.                                        *)
(***************************************************************************)
EXTENDS Integers, Sequences, FiniteSets, TLC

(***************************************************************************)
(* Bounds of the model.                                                    *)
(***************************************************************************)
\* Largest number of entries a fetched index page holds.
MaxItems == 2

(***************************************************************************)
(* String primitives.                                                      *)
(***************************************************************************)
DigitChars == <<"0", "1", "2", "3", "4", "5", "6", "7", "8", "9">>

IsDigit(c) == \E i \in 1..Len(DigitChars) : DigitChars[i] = c

DigitVal(c) == (CHOOSE i \in 1..Len(DigitChars) : DigitChars[i] = c) - 1

\* A non-empty run of decimal digits: what \d+ and [0-9]+ match.
IsDigits(s) == Len(s) > 0 /\ \A i \in 1..Len(s) : IsDigit(s[i])

RECURSIVE DecimalValue(_)
DecimalValue(s) ==
  IF Len(s) = 0 THEN 0
  ELSE 10 * DecimalValue(SubSeq(s, 1, Len(s) - 1)) + DigitVal(s[Len(s)])

\* String.prototype.split with a one-character separator.
RECURSIVE Split(_, _)
Split(s, sep) ==
  IF \A i \in 1..Len(s) : s[i] # sep THEN <<s>>
  ELSE LET k == CHOOSE i \in 1..Len(s) :
                  s[i] = sep /\ \A j \in 1..(i - 1) : s[j] # sep
       IN <<SubSeq(s, 1, k - 1)>> \o Split(SubSeq(s, k + 1, Len(s)), sep)

\* Array.prototype.join with a one-character separator.
RECURSIVE Join(_, _)
Join(parts, sep) ==
  IF Len(parts) = 0 THEN <<>>
  ELSE IF Len(parts) = 1 THEN parts[1]
  ELSE parts[1] \o <<sep>> \o Join(Tail(parts), sep)

\* String.prototype.startsWith.
StartsWith(s, p) == Len(p) <= Len(s) /\ SubSeq(s, 1, Len(p)) = p

\* String.prototype.endsWith.
EndsWith(s, suffix) ==
  Len(suffix) <= Len(s) /\ SubSeq(s, Len(s) - Len(suffix) + 1, Len(s)) = suffix

\* Array.prototype.includes.
Includes(arr, x) == \E i \in 1..Len(arr) : arr[i] = x

\* new Set(iterable) spread back into an array: the first occurrence of each
\* element, in insertion order.
RECURSIVE SetOrder(_)
SetOrder(arr) ==
  IF Len(arr) = 0 THEN <<>>
  ELSE LET init == SetOrder(SubSeq(arr, 1, Len(arr) - 1))
       IN IF Includes(init, arr[Len(arr)]) THEN init
          ELSE Append(init, arr[Len(arr)])

\* Number(s) for a component of a dotted numeric string: the empty string is 0.
ToNumber(s) == DecimalValue(s)

\* The longest prefix of s made of digits: what parseInt reads.
RECURSIVE DigitPrefix(_)
DigitPrefix(s) ==
  IF Len(s) = 0 \/ ~IsDigit(s[1]) THEN <<>>
  ELSE <<s[1]>> \o DigitPrefix(Tail(s))

ParseInt(s) == DecimalValue(DigitPrefix(s))

Max(a, b) == IF a >= b THEN a ELSE b

\* Array.prototype.slice(0, n).
Take(arr, n) == SubSeq(arr, 1, IF n <= Len(arr) THEN n ELSE Len(arr))

\* What is left of a text after its first n characters.
Drop(arr, n) == SubSeq(arr, n + 1, Len(arr))

(***************************************************************************)
(* utils: compareVersions, sortVersions.                                   *)
(***************************************************************************)
\* aParts[i] || 0 : a missing component reads as 0.
PartOr0(parts, i) == IF i <= Len(parts) THEN ToNumber(parts[i]) ELSE 0

RECURSIVE CompareFrom(_, _, _)
CompareFrom(aParts, bParts, i) ==
  IF i > Max(Len(aParts), Len(bParts)) THEN 0
  ELSE LET aVal == PartOr0(aParts, i)
           bVal == PartOr0(bParts, i)
       IN IF aVal # bVal THEN aVal - bVal
          ELSE CompareFrom(aParts, bParts, i + 1)

\* The comparison without the || 0 of the missing components: the common
\* components first, then the shorter version first.
compareVersionsUnpadded(a, b) ==
  LET aParts == Split(a, ".")
      bParts == Split(b, ".")
      n == IF Len(aParts) <= Len(bParts) THEN Len(aParts) ELSE Len(bParts)
      common == CompareFrom(Take(aParts, n), Take(bParts, n), 1)
  IN IF common # 0 THEN common ELSE Len(aParts) - Len(bParts)

compareVersions(a, b) == CompareFrom(Split(a, "."), Split(b, "."), 1)

\* Insert x after every element that does not compare above it (stable).
RECURSIVE InsertSorted(_, _)
InsertSorted(sorted, x) ==
  IF Len(sorted) = 0 THEN <<x>>
  ELSE IF compareVersions(sorted[Len(sorted)], x) <= 0 THEN Append(sorted, x)
  ELSE Append(InsertSorted(SubSeq(sorted, 1, Len(sorted) - 1), x),
              sorted[Len(sorted)])

\* Array.prototype.sort(compareVersions): a stable sort.
RECURSIVE sortVersions(_)
sortVersions(versions) ==
  IF Len(versions) = 0 THEN <<>>
  ELSE InsertSorted(sortVersions(SubSeq(versions, 1, Len(versions) - 1)),
                    versions[Len(versions)])

(***************************************************************************)
(* Version strings used as inputs.  V_a_b_c is the text "a.b.c".           *)
(***************************************************************************)
V_9_0 == <<"9", ".", "0">>
V_9_2 == <<"9", ".", "2">>
V_9_2_148 == <<"9", ".", "2", ".", "1", "4", "8">>
V_10_0 == <<"1", "0", ".", "0">>
V_10_1 == <<"1", "0", ".", "1">>
V_10_2 == <<"1", "0", ".", "2">>
V_10_2_0 == <<"1", "0", ".", "2", ".", "0">>
V_10_10 == <<"1", "0", ".", "1", "0">>
V_10_1_243 == <<"1", "0", ".", "1", ".", "2", "4", "3">>
V_11_0 == <<"1", "1", ".", "0">>
V_11_0_1 == <<"1", "1", ".", "0", ".", "1">>
V_11_2 == <<"1", "1", ".", "2">>
V_11_2_0 == <<"1", "1", ".", "2", ".", "0">>
V_12_4 == <<"1", "2", ".", "4">>
V_12_4_1 == <<"1", "2", ".", "4", ".", "1">>
V_12_4_1_1 == <<"1", "2", ".", "4", ".", "1", ".", "1">>
V_99_9 == <<"9", "9", ".", "9">>
S_1 == <<"1">>
S_10 == <<"1", "0">>
S_11 == <<"1", "1">>
S_12 == <<"1", "2">>
S_13 == <<"1", "3">>
S_latest == <<"l", "a", "t", "e", "s", "t">>

\* The value JavaScript calls undefined; no version string equals it.
Undefined == <<"undefined">>

\* The same value where a path string is expected.
NoPath == "undefined"

(***************************************************************************)
(* const: the minimum supported version and the static legacy list.        *)
(***************************************************************************)
START_SUPPORTED_CUDA_VERSION == V_10_0

\* The contents the static legacy list may have.
LegacyLists == { <<>>, <<V_10_0, V_10_2>>, <<V_9_0, V_10_2>> }

(***************************************************************************)
(* cuda: normalizeCudaVersion and the three fetchers.                      *)
(*                                                                         *)
(* A fetched page is the sequence of its entries a fetcher's regular       *)
(* expression can start a match at; an entry is the text that follows the  *)
(* fixed marker of the expression.                                         *)
(***************************************************************************)
\* The normalization with its test read as major < 10.
normalizeBelowTen(version) ==
  LET parts == Split(version, ".")
      major == ParseInt(parts[1])
  IN IF major < 10 THEN Join(Take(parts, 2), ".") ELSE version

normalizeCudaVersion(version) ==
  LET parts == Split(version, ".")
      major == ParseInt(parts[1])
  IN IF major <= 10 THEN Join(Take(parts, 2), ".") ELSE version

\* Every component of a dotted text is a non-empty digit run.
AllDigitParts(parts) == \A i \in 1..Len(parts) : IsDigits(parts[i])

\* /redistrib_([0-9]+\.[0-9]+(?:\.[0-9]+)?(?:\.[0-9]+)?)\.json/ on the entry
\* redistrib_<text>.json : the captured versions (none or one).
MatchRedistrib(text) ==
  LET parts == Split(text, ".")
  IN IF Len(parts) >= 2 /\ Len(parts) <= 4 /\ AllDigitParts(parts)
     THEN <<text>> ELSE <<>>

\* /CUDA Toolkit\s+(\d+\.\d+(?:\.\d+)?)/ on the entry "CUDA Toolkit <text>":
\* the greedy match at the start of text.
MatchToolkitLabel(text) ==
  LET d1 == DigitPrefix(text)
      r1 == Drop(text, Len(d1))
      d2 == IF Len(r1) > 0 /\ r1[1] = "." THEN DigitPrefix(Tail(r1)) ELSE <<>>
      r2 == Drop(r1, Len(d2) + 1)
      d3 == IF Len(r2) > 0 /\ r2[1] = "." THEN DigitPrefix(Tail(r2)) ELSE <<>>
  IN IF Len(d1) = 0 \/ Len(d2) = 0 THEN <<>>
     ELSE IF Len(d3) > 0 THEN << d1 \o <<".">> \o d2 \o <<".">> \o d3 >>
     ELSE << d1 \o <<".">> \o d2 >>

\* /cuda-(\d+)-(\d+)(?:-(\d+))?-/ on the entry "cuda-<text>": the version
\* built from match[1], match[2] and, when it took part, match[3].
MatchArchiveSlug(text) ==
  LET d1 == DigitPrefix(text)
      r1 == Drop(text, Len(d1))
      d2 == IF Len(r1) > 0 /\ r1[1] = "-" THEN DigitPrefix(Tail(r1)) ELSE <<>>
      r2 == Drop(r1, Len(d2) + 1)
      d3 == IF Len(r2) > 0 /\ r2[1] = "-" THEN DigitPrefix(Tail(r2)) ELSE <<>>
      r3 == Drop(r2, Len(d3) + 1)
  IN IF Len(d1) = 0 \/ Len(d2) = 0 \/ Len(r2) = 0 \/ r2[1] # "-" THEN <<>>
     ELSE IF Len(d3) > 0 /\ Len(r3) > 0 /\ r3[1] = "-"
          THEN << d1 \o <<".">> \o d2 \o <<".">> \o d3 >>
     ELSE << d1 \o <<".">> \o d2 >>

\* />([0-9]+\.[0-9]+(?:\.[0-9]+)?)\// on the entry "><text>/".
MatchOpensourceDir(text) ==
  LET parts == Split(text, ".")
  IN IF Len(parts) >= 2 /\ Len(parts) <= 3 /\ AllDigitParts(parts)
     THEN <<text>> ELSE <<>>

RECURSIVE Flatten(_)
Flatten(seqs) ==
  IF Len(seqs) = 0 THEN <<>> ELSE seqs[1] \o Flatten(Tail(seqs))

\* All matches of one expression over a page, in page order.
MatchAll(page, Match(_)) == Flatten([i \in 1..Len(page) |-> Match(page[i])])

\* An archive page entry is a "CUDA Toolkit <text>" label or a "cuda-<text>"
\* link slug.
Label(text) == [kind |-> "label", text |-> text]

Slug(text) == [kind |-> "slug", text |-> text]

MatchLabelEntry(e) == IF e.kind = "label" THEN MatchToolkitLabel(e.text) ELSE <<>>

MatchSlugEntry(e) == IF e.kind = "slug" THEN MatchArchiveSlug(e.text) ELSE <<>>

\* Method A: the versions of the redistrib manifests of a page.
fetchRedistribVersions(page) ==
  sortVersions(SetOrder(MatchAll(page, MatchRedistrib)))

\* Method B: pattern 1 over the whole page, then pattern 2, into one Set.
fetchArchiveVersions(page) ==
  sortVersions(SetOrder(MatchAll(page, MatchLabelEntry)
                        \o MatchAll(page, MatchSlugEntry)))

NormalizedDir(text) ==
  LET m == MatchOpensourceDir(text)
  IN IF Len(m) = 0 THEN <<>> ELSE <<normalizeCudaVersion(m[1])>>

\* Method C: the normalized versions of the opensource directories of a page.
fetchOpensourceVersions(page) ==
  sortVersions(SetOrder(MatchAll(page, NormalizedDir)))

(***************************************************************************)
(* The pages the three upstream sources may serve: the sub-sequences of    *)
(* at most MaxItems entries of a pool of entries.                          *)
(***************************************************************************)
RedistribPool == << V_11_0_1, V_11_2_0, V_12_4_1, V_12_4_1_1, S_12 >>

ArchivePool ==
  << Label(V_11_0 \o <<" ", "U">>), Label(V_11_2), Label(V_9_2),
     Slug(V_11_2 \o <<"-", "d">>),
     Slug(<<"1", "1", "-", "2", "-", "0", "-", "d">>) >>

OpensourcePool == << V_9_2_148, V_10_1_243, V_11_0_1, V_12_4_1 >>

RECURSIVE PickInOrder(_, _, _)
PickInOrder(pool, idx, i) ==
  IF i > Len(pool) THEN <<>>
  ELSE (IF i \in idx THEN <<pool[i]>> ELSE <<>>) \o PickInOrder(pool, idx, i + 1)

PagesOf(pool) ==
  { PickInOrder(pool, idx, 1) :
      idx \in { s \in SUBSET (1..Len(pool)) : Cardinality(s) <= MaxItems } }

Sources == 1..3

Pages(i) ==
  CASE i = 1 -> PagesOf(RedistribPool)
    [] i = 2 -> PagesOf(ArchivePool)
    [] i = 3 -> PagesOf(OpensourcePool)

\* What source i's fetcher returns for the page it received.
Fetcher(i, page) ==
  CASE i = 1 -> fetchRedistribVersions(page)
    [] i = 2 -> fetchArchiveVersions(page)
    [] i = 3 -> fetchOpensourceVersions(page)

(***************************************************************************)
(* fetchAvailableCudaVersions: the aggregation after Promise.allSettled.   *)
(***************************************************************************)
Pending == [status |-> "pending", value |-> <<>>]

Fulfilled(value) == [status |-> "fulfilled", value |-> value]

Rejected == [status |-> "rejected", value |-> <<>>]

\* results[i].status === 'fulfilled' ? results[i].value : []
ValueOrEmpty(r) == IF r.status = "fulfilled" THEN r.value ELSE <<>>

AtLeastFloor(version) ==
  compareVersions(version, START_SUPPORTED_CUDA_VERSION) >= 0

\* The aggregation with the versions concatenated instead of put in a Set.
AggregateNoSet(res, legacy) ==
  LET allVersions == ValueOrEmpty(res[1]) \o ValueOrEmpty(res[2])
                     \o ValueOrEmpty(res[3]) \o legacy
  IN SelectSeq(sortVersions(allVersions), AtLeastFloor)

\* The aggregation without the filter on the minimum supported version.
AggregateUnfiltered(res, legacy) ==
  LET allVersions == SetOrder(ValueOrEmpty(res[1]) \o ValueOrEmpty(res[2])
                              \o ValueOrEmpty(res[3]) \o legacy)
  IN sortVersions(allVersions)

Aggregate(res, legacy) ==
  LET allVersions == SetOrder(ValueOrEmpty(res[1]) \o ValueOrEmpty(res[2])
                              \o ValueOrEmpty(res[3]) \o legacy)
  IN SelectSeq(sortVersions(allVersions), AtLeastFloor)

\* Outcomes collected in the order the promises settle.
CompletionSlot(i, res) ==
  1 + Cardinality({ k \in DOMAIN res : res[k].status # "pending" })

\* Promise.allSettled reports the outcome of its i-th promise at index i,
\* whatever the order in which the promises settle.
SettledSlot(i, res) == i

(***************************************************************************)
(* findCudaVersion, on the catalog fetchAvailableCudaVersions returned.    *)
(***************************************************************************)
\* findCudaVersion with the prefix test made without the trailing dot.
findCudaVersionNoDot(catalog, input) ==
  IF input = S_latest
  THEN (IF Len(catalog) = 0 THEN Undefined ELSE catalog[Len(catalog)])
  ELSE IF Includes(catalog, input) THEN input
  ELSE LET HasPrefix(v) == StartsWith(v, input)
           matchingVersions == SelectSeq(catalog, HasPrefix)
       IN IF Len(matchingVersions) > 0
          THEN matchingVersions[Len(matchingVersions)]
          ELSE Undefined

\* findCudaVersion with "latest" answered by the first element.
findCudaVersionFirst(catalog, input) ==
  IF input = S_latest
  THEN (IF Len(catalog) = 0 THEN Undefined ELSE catalog[1])
  ELSE IF Includes(catalog, input) THEN input
  ELSE LET prefix == input \o <<".">>
           HasPrefix(v) == StartsWith(v, prefix)
           matchingVersions == SelectSeq(catalog, HasPrefix)
       IN IF Len(matchingVersions) > 0
          THEN matchingVersions[Len(matchingVersions)]
          ELSE Undefined

\* findCudaVersion with the prefix match tried before the exact match.
findCudaVersionPrefixFirst(catalog, input) ==
  IF input = S_latest
  THEN (IF Len(catalog) = 0 THEN Undefined ELSE catalog[Len(catalog)])
  ELSE LET prefix == input \o <<".">>
           HasPrefix(v) == StartsWith(v, prefix)
           matchingVersions == SelectSeq(catalog, HasPrefix)
       IN IF Len(matchingVersions) > 0
          THEN matchingVersions[Len(matchingVersions)]
          ELSE IF Includes(catalog, input) THEN input
          ELSE Undefined

findCudaVersion(catalog, input) ==
  IF input = S_latest
  THEN (IF Len(catalog) = 0 THEN Undefined ELSE catalog[Len(catalog)])
  ELSE IF Includes(catalog, input) THEN input
  ELSE LET prefix == input \o <<".">>
           HasPrefix(v) == StartsWith(v, prefix)
           matchingVersions == SelectSeq(catalog, HasPrefix)
       IN IF Len(matchingVersions) > 0
          THEN matchingVersions[Len(matchingVersions)]
          ELSE Undefined

\* The version specifiers tried.
Specifiers ==
  { S_latest, S_1, S_10, S_11, S_12, S_13,
    V_11_0, V_11_2, V_12_4, V_12_4_1, V_99_9 }

\* The outcomes source i's fetch can settle with.
SettledOutcomes(i) ==
  {Rejected} \cup { Fulfilled(Fetcher(i, page)) : page \in Pages(i) }

\* The catalogs fetchAvailableCudaVersions can return with a legacy list.
CatalogsWith(legacy) ==
  { Aggregate(<<a, b, c>>, legacy) :
      a \in SettledOutcomes(1), b \in SettledOutcomes(2),
      c \in SettledOutcomes(3) }

(***************************************************************************)
(* State.                                                                  *)
(***************************************************************************)
VARIABLES
  pc,                 \* position of the findCudaVersion call
  OLD_CUDA_VERSIONS,  \* the static legacy list
  upstream,           \* the catalogs the upstream sources can yield
  inflight,           \* the source fetches started and not yet settled
  response,           \* per source, the HTTP response received
  results,            \* the array Promise.allSettled fills
  versions,           \* the catalog fetchAvailableCudaVersions returned
  inputVersion,       \* the specifier findCudaVersion was called with
  resolved,           \* what findCudaVersion returned
  runPc,              \* position of the entry point run()
  inputMethod,        \* the installation method input
  osType,             \* getOS()
  arch,               \* getArch()
  distro,             \* the family getLinuxDistribution() describes
  attempts,           \* the installers started, in order
  networkResult,      \* how the call of installCudaNetwork ended
  pathExists,         \* the installation root exists on the file system
  cudaPath,           \* the installation path run() holds
  env,                \* the environment of the process and of later steps
  envSet,             \* setEnvironmentVariables was called
  outputs,            \* the outputs given to core.setOutput
  effects,            \* the calls run() made that leave the process, in order
  failures,           \* the messages given to core.setFailed
  raised,             \* the errors thrown inside run(), caught or not
  call,               \* the library function applied and its arguments
  ret,                \* what that call returned
  CUDA_LINKS,         \* the static table of installer URLs
  locPc,              \* position of the getCudaLocalInstallerUrl call
  locArgs,            \* its arguments: version, os, arch
  locTrace,           \* what it consulted so far, in order
  md5sums,            \* the filenames of the checksum manifest it fetched
  locReturn,          \* what it returned or threw
  netPc,              \* position of the findCudaNetworkInstallerWindows call
  probeUrl,           \* the URL its HEAD request asks for
  probe,              \* how the HEAD request was answered
  netReturn           \* what it returned or threw

staticVars ==
  << OLD_CUDA_VERSIONS, upstream >>

catalogVars ==
  << pc, inflight, response, results >>

resolverVars ==
  << catalogVars, versions, inputVersion, resolved >>

locatorVars ==
  << CUDA_LINKS, locPc, locArgs, locTrace, md5sums, locReturn >>

finderVars ==
  << netPc, probeUrl, probe, netReturn >>

libraryVars ==
  << call, ret, locatorVars, finderVars >>

hostVars ==
  << inputMethod, osType, arch, distro >>

installVars ==
  << attempts, networkResult, pathExists, cudaPath >>

reportVars ==
  << env, envSet, outputs, effects >>

runVars ==
  << runPc, hostVars, installVars, reportVars, failures, raised >>

vars ==
  << pc, OLD_CUDA_VERSIONS, upstream, inflight, response, results, versions,
     inputVersion, resolved, runPc, inputMethod, osType, arch, distro,
     attempts, networkResult, pathExists, cudaPath, env, envSet, outputs,
     effects,
     failures, raised, call, ret, CUDA_LINKS, locPc, locArgs, locTrace,
     md5sums, locReturn, netPc, probeUrl, probe, netReturn >>

NoResponse == [statusCode |-> 0, page |-> <<>>]

\* The environment before the process has one.
NoEnv ==
  [PATH |-> <<>>, CUDA_PATH |-> "unset", CUDA_HOME |-> "unset",
   LD_LIBRARY_PATH |-> <<>>]

\* core.setOutput was not called.
NoOutputs == [version |-> Undefined, cuda_path |-> NoPath]

\* No library function is being applied on its own.
NoCall == [fn |-> "none"]

NotReturned == [done |-> FALSE]

\* The state before findCudaVersion and run() start.
InitAction ==
  /\ pc = "idle"
  /\ OLD_CUDA_VERSIONS \in LegacyLists
  /\ upstream = CatalogsWith(OLD_CUDA_VERSIONS)
  /\ inflight = {}
  /\ response = [i \in Sources |-> NoResponse]
  /\ results = [i \in Sources |-> Pending]
  /\ versions = <<>>
  /\ inputVersion = Undefined
  /\ resolved = Undefined
  /\ runPc = "start"
  /\ inputMethod = "none"
  /\ osType = "none"
  /\ arch = "none"
  /\ distro = "none"
  /\ attempts = <<>>
  /\ networkResult = "none"
  /\ pathExists = FALSE
  /\ cudaPath = NoPath
  /\ env = NoEnv
  /\ envSet = FALSE
  /\ effects = <<>>
  /\ outputs = NoOutputs
  /\ failures = <<>>
  /\ raised = <<>>

\* No URL: the value of a missing table slot.
NoUrl == [kind |-> "undefined", version |-> <<>>, dir |-> "none", filename |-> <<>>]

\* getCudaLocalInstallerUrl has not settled.
NotSettled == [status |-> "pending", url |-> NoUrl, error |-> "none"]

NoArgs == [version |-> <<>>, os |-> "none", arch |-> "none"]

\* Neither getCudaLocalInstallerUrl nor findCudaNetworkInstallerWindows is
\* being called.
LocatorIdle ==
  /\ CUDA_LINKS = <<>>
  /\ locPc = "idle"
  /\ locArgs = NoArgs
  /\ locTrace = <<>>
  /\ md5sums = <<>>
  /\ locReturn = NotSettled
  /\ netPc = "none"
  /\ probeUrl = NoUrl
  /\ probe = "none"
  /\ netReturn = NotSettled

Init ==
  /\ InitAction
  /\ call = NoCall
  /\ ret = NotReturned
  /\ LocatorIdle

\* findCudaVersion calls fetchAvailableCudaVersions, which starts the three
\* fetches at once.
StartFetches ==
  /\ pc = "idle"
  /\ pc' = "fetching"
  /\ inflight' = Sources
  /\ UNCHANGED << staticVars, libraryVars, response, results, versions,
                  inputVersion, resolved, runVars >>

\* Source i answers 200 with a page: its fetcher resolves with the versions
\* it extracts.
FetchFulfilled(i) ==
  /\ pc = "fetching"
  /\ i \in inflight
  /\ \E page \in Pages(i) :
       /\ response' = [response EXCEPT ![i] = [statusCode |-> 200, page |-> page]]
       /\ results' = [results EXCEPT ![SettledSlot(i, results)] =
                        Fulfilled(Fetcher(i, page))]
  /\ inflight' = inflight \ {i}
  /\ UNCHANGED << pc, staticVars, libraryVars, versions, inputVersion, resolved,
                  runVars >>

\* Source i answers with a status other than 200: its fetcher throws.
FetchRejected(i) ==
  /\ pc = "fetching"
  /\ i \in inflight
  /\ response' = [response EXCEPT ![i] = [statusCode |-> 503, page |-> <<>>]]
  /\ results' = [results EXCEPT ![SettledSlot(i, results)] = Rejected]
  /\ inflight' = inflight \ {i}
  /\ UNCHANGED << pc, staticVars, libraryVars, versions, inputVersion, resolved,
                  runVars >>

\* All three settled: fetchAvailableCudaVersions merges, sorts, filters and
\* returns.
AllSettled ==
  /\ pc = "fetching"
  /\ inflight = {}
  /\ versions' = Aggregate(results, OLD_CUDA_VERSIONS)
  /\ pc' = "joined"
  /\ UNCHANGED << staticVars, libraryVars, inflight, response, results,
                  inputVersion, resolved, runVars >>

\* findCudaVersion resumes with the catalog and matches its argument, which
\* nothing read before this point.  The responses and the settled array are
\* locals of fetchAvailableCudaVersions and are gone.
Resolve ==
  /\ pc = "joined"
  /\ \E input \in Specifiers :
       /\ inputVersion' = input
       /\ resolved' = findCudaVersion(versions, input)
  /\ pc' = "resolved"
  /\ response' = [i \in Sources |-> NoResponse]
  /\ results' = [i \in Sources |-> Pending]
  /\ UNCHANGED << staticVars, libraryVars, inflight, versions, runVars >>

Next ==
  \/ StartFetches
  \/ \E i \in Sources : FetchFulfilled(i)
  \/ \E i \in Sources : FetchRejected(i)
  \/ AllSettled
  \/ Resolve

Spec == Init /\ [][Next]_vars

(***************************************************************************)
(* index: the entry point run().                                           *)
(***************************************************************************)
\* getOS: os.platform() mapped to an OS, or a throw.
getOS(platform) ==
  CASE platform = "linux" -> "linux"
    [] platform = "win32" -> "windows"
    [] OTHER -> "throw"

\* getArch: os.arch() mapped to an architecture, or a throw.
getArch(cpu) ==
  CASE cpu = "x64" -> "x86_64"
    [] cpu = "arm64" -> "arm64-sbsa"
    [] OTHER -> "throw"

HostPlatforms == {"linux", "win32", "darwin"}

HostCpus == {"x64", "arm64", "ia32"}

\* The distribution families /etc/os-release may describe.
LinuxFamilies == {"debian", "fedora", "other"}

isDebianBased(osInfo) == osInfo = "debian"

isFedoraBased(osInfo) == osInfo = "fedora"

\* The values the method input may hold; the empty input reads as auto.
MethodInputs == {"", "local", "network", "auto", "fast"}

\* The values the version input may hold; the empty input reads as latest.
VersionInputs == Specifiers \cup {<<>>}

\* The installation root of a finished installation.
InstallPath(os) ==
  IF os = "linux" THEN "/usr/local/cuda" ELSE "C:\\...\\CUDA\\vM.m"

\* What an installer meets outside the process: whether the files it looks
\* for upstream are found, whether its downloads and commands succeed, and
\* whether the installation root exists once the commands have run.
Worlds ==
  [locate : {"found", "missing", "throw"}, exec : BOOLEAN, exists : BOOLEAN]

\* findCudaRepoAndPackageLinux: it throws when a listing cannot be fetched or
\* holds nothing for the version, and findRepoFilename throws for a
\* distribution that is neither Debian- nor Fedora-based.
findCudaRepoAndPackageLinux(osInfo, world) ==
  IF world.locate # "found" THEN "throw"
  ELSE IF ~isDebianBased(osInfo) /\ ~isFedoraBased(osInfo) THEN "throw"
  ELSE "found"

\* installCudaLinuxNetwork: the path is returned as soon as the package
\* manager commands have succeeded.
installCudaLinuxNetwork(osInfo, world) ==
  LET cudaRepoAndPackage == findCudaRepoAndPackageLinux(osInfo, world)
  IN IF cudaRepoAndPackage = "throw" THEN "throw"
     ELSE IF cudaRepoAndPackage = "undefined" THEN "undefined"
     ELSE IF ~world.exec THEN "throw"
     ELSE IF isDebianBased(osInfo) \/ isFedoraBased(osInfo) THEN "path"
     ELSE "undefined"

\* installCudaWindowsNetwork: no installer URL, a failed download or run, or
\* a missing installation root each throw.
installCudaWindowsNetwork(world) ==
  IF world.locate # "found" THEN "throw"
  ELSE IF ~world.exec THEN "throw"
  ELSE IF ~world.exists THEN "throw"
  ELSE "path"

installCudaNetwork(os, osInfo, world) ==
  IF os = "linux" THEN installCudaLinuxNetwork(osInfo, world)
  ELSE IF os = "windows" THEN installCudaWindowsNetwork(world)
  ELSE "undefined"

\* installCudaLocal: getCudaLocalInstallerUrl, the download and the installer
\* may throw; installCudaLinuxLocal and installCudaWindowsLocal throw when the
\* installation root is missing afterwards.
installCudaLocal(os, world) ==
  IF world.locate # "found" THEN "throw"
  ELSE IF ~world.exec THEN "throw"
  ELSE IF ~world.exists THEN "throw"
  ELSE "path"

\* A value of an environment variable that lists paths is the sequence of
\* its entries; an entry is the sequence of its segments.  An unset variable
\* has no entry, the empty text has one empty entry.
Unset == <<>>

EmptyText == << <<>> >>

PathJoin(root, segments) == <<root>> \o segments

\* The environment the process starts with.
HostEnvs ==
  [PATH : { << <<"/usr/bin">> >> },
   CUDA_PATH : {"unset"},
   CUDA_HOME : {"/opt/cuda-old"},
   LD_LIBRARY_PATH : { Unset, << <<"/opt/lib">> >> }]

\* core.addPath: the entry goes in front of PATH.
AddPath(e, entry) == [e EXCEPT !.PATH = <<entry>> \o @]

\* The environment with LD_LIBRARY_PATH left as it was.
setEnvironmentVariablesNoLibraryPath(e, os, path) ==
  LET bin == AddPath(e, PathJoin(path, <<"bin">>))
  IN [bin EXCEPT !.CUDA_PATH = path, !.CUDA_HOME = path]

setEnvironmentVariables(e, os, path) ==
  IF os = "linux"
  THEN LET bin == AddPath(e, PathJoin(path, <<"bin">>))
       IN [bin EXCEPT
             !.CUDA_PATH = path,
             !.CUDA_HOME = path,
             !.LD_LIBRARY_PATH =
                << PathJoin(path, <<"lib64">>) >>
                \o (IF @ = Unset THEN EmptyText ELSE @)]
  ELSE IF os = "windows"
  THEN LET bin == AddPath(e, PathJoin(path, <<"bin">>))
           lib == AddPath(bin, PathJoin(path, <<"lib", "x64">>))
       IN [lib EXCEPT !.CUDA_PATH = path, !.CUDA_HOME = path]
  ELSE e

\* The calls of setEnvironmentVariables that leave the process, in order.
EnvironmentCalls(os) ==
  IF os = "linux"
  THEN << "addPath", "exportVariable", "exportVariable", "exportVariable" >>
  ELSE IF os = "windows"
  THEN << "addPath", "addPath", "exportVariable", "exportVariable" >>
  ELSE <<>>

\* A failure message swallowed where the catch block should report it.
SetFailedSilently(message) ==
  /\ runPc' = "failed"
  /\ raised' = Append(raised, message)
  /\ UNCHANGED failures

\* The catch block: one core.setFailed with the error's message.
SetFailed(message) ==
  /\ runPc' = "failed"
  /\ failures' = Append(failures, message)
  /\ raised' = Append(raised, message)

\* The synchronous head of run(): the inputs are read and validated and the
\* platform is identified, up to the first await.
RunStart ==
  /\ runPc = "start"
  /\ \E v \in VersionInputs, m \in MethodInputs,
        platform \in HostPlatforms, cpu \in HostCpus,
        family \in LinuxFamilies \cup {"unreadable"}, hostEnv \in HostEnvs :
       LET version == IF v = <<>> THEN S_latest ELSE v
           method == IF m = "" THEN "auto" ELSE m
           error ==
             IF method \notin {"local", "network", "auto"} THEN "invalid-method"
             ELSE IF getOS(platform) = "throw" THEN "unsupported-platform"
             ELSE IF getArch(cpu) = "throw" THEN "unsupported-architecture"
             ELSE IF getOS(platform) = "windows" /\ getArch(cpu) = "arm64-sbsa"
                  THEN "windows-arm-unsupported"
             ELSE IF family = "unreadable" THEN "host-information-unavailable"
             ELSE "none"
       IN /\ env' = hostEnv
          /\ IF error # "none"
             THEN /\ SetFailed(error)
                  /\ UNCHANGED << inputVersion, hostVars >>
             ELSE /\ runPc' = "resolving"
                  /\ inputVersion' = version
                  /\ inputMethod' = method
                  /\ osType' = getOS(platform)
                  /\ arch' = getArch(cpu)
                  /\ distro' = (IF getOS(platform) = "linux" THEN family
                                ELSE "windows")
                  /\ UNCHANGED << failures, raised >>
  /\ UNCHANGED << staticVars, libraryVars, catalogVars, versions, resolved,
                  installVars, envSet, outputs, effects >>

\* await findCudaVersion(inputVersion): the catalog is fetched and the
\* specifier matched against it.
RunFindVersion ==
  /\ runPc = "resolving"
  /\ \E catalog \in upstream :
       /\ versions' = catalog
       /\ resolved' = findCudaVersion(catalog, inputVersion)
  /\ runPc' = "resolved"
  /\ UNCHANGED << staticVars, libraryVars, catalogVars, inputVersion,
                  hostVars, installVars, reportVars, failures, raised >>

\* The check of the resolution continuing without its throw.
RunCheckVersionSkipped ==
  /\ runPc = "resolved"
  /\ runPc' = (IF inputMethod = "local" THEN "local" ELSE "network")
  /\ versions' = <<>>
  /\ UNCHANGED << staticVars, libraryVars, catalogVars, inputVersion, resolved,
                  hostVars, installVars, reportVars, failures, raised >>

\* if (!targetCudaVersion) throw; otherwise the method picks the installer.
\* The catalog was a local of findCudaVersion.
RunCheckVersion ==
  /\ runPc = "resolved"
  /\ IF resolved = Undefined
     THEN SetFailed("version-not-found")
     ELSE /\ runPc' = (IF inputMethod = "local" THEN "local" ELSE "network")
          /\ UNCHANGED << failures, raised >>
  /\ versions' = <<>>
  /\ UNCHANGED << staticVars, libraryVars, catalogVars, inputVersion, resolved,
                  hostVars, installVars, reportVars >>

\* The network branch with the fallback taken whatever the method is.
RunInstallNetworkAlwaysFallback ==
  /\ runPc = "network"
  /\ attempts' = Append(attempts, "network")
  /\ \E world \in Worlds :
       LET result == installCudaNetwork(osType, distro, world)
       IN /\ pathExists' = world.exists
          /\ networkResult' = result
          /\ IF result = "path"
             THEN /\ cudaPath' = InstallPath(osType)
                  /\ runPc' = "installed"
                  /\ UNCHANGED << failures, raised >>
             ELSE /\ runPc' = "local"
                  /\ raised' = Append(raised, "network-installation-error")
                  /\ UNCHANGED << cudaPath, failures >>
  /\ UNCHANGED << staticVars, libraryVars, resolverVars, hostVars,
                  reportVars >>

\* await installCudaNetwork(...) under the methods network and auto.  Under
\* auto a throw is caught and the local installer is tried; under network an
\* undefined result throws.
RunInstallNetwork ==
  /\ runPc = "network"
  /\ attempts' = Append(attempts, "network")
  /\ \E world \in Worlds :
       LET result == installCudaNetwork(osType, distro, world)
       IN /\ pathExists' = world.exists
          /\ networkResult' = result
          /\ IF result = "path"
             THEN /\ cudaPath' = InstallPath(osType)
                  /\ runPc' = "installed"
                  /\ UNCHANGED << failures, raised >>
             ELSE IF result = "throw" /\ inputMethod = "auto"
             THEN /\ runPc' = "local"
                  /\ raised' = Append(raised, "network-installation-error")
                  /\ UNCHANGED << cudaPath, failures >>
             ELSE IF result = "throw"
             THEN /\ SetFailed("network-installation-error")
                  /\ UNCHANGED cudaPath
             ELSE IF inputMethod = "network"
             THEN /\ SetFailed("network-installation-failed")
                  /\ UNCHANGED cudaPath
             ELSE /\ cudaPath' = NoPath
                  /\ runPc' = "installed"
                  /\ UNCHANGED << failures, raised >>
  /\ UNCHANGED << staticVars, libraryVars, resolverVars, hostVars,
                  reportVars >>

\* The local installation exporting the environment itself, as soon as its
\* commands have run and before the installation root is looked for.
RunInstallLocalExporting ==
  /\ runPc = "local"
  /\ attempts' = Append(attempts, "local")
  /\ \E world \in Worlds :
       LET result == installCudaLocal(osType, world)
       IN /\ pathExists' = world.exists
          /\ IF world.locate = "found" /\ world.exec
             THEN /\ env' = setEnvironmentVariables(env, osType,
                                                    InstallPath(osType))
                  /\ effects' = effects \o EnvironmentCalls(osType)
             ELSE UNCHANGED << env, effects >>
          /\ IF result = "path"
             THEN /\ cudaPath' = InstallPath(osType)
                  /\ runPc' = "installed"
                  /\ UNCHANGED << failures, raised >>
             ELSE /\ SetFailed("local-installation-error")
                  /\ UNCHANGED cudaPath
  /\ UNCHANGED << staticVars, libraryVars, resolverVars, hostVars,
                  networkResult, envSet, outputs >>

\* await installCudaLocal(...) under the method local and in the fallback of
\* auto: it returns the installation path or throws.
RunInstallLocal ==
  /\ runPc = "local"
  /\ attempts' = Append(attempts, "local")
  /\ \E world \in Worlds :
       LET result == installCudaLocal(osType, world)
       IN /\ pathExists' = world.exists
          /\ IF result = "path"
             THEN /\ cudaPath' = InstallPath(osType)
                  /\ runPc' = "installed"
                  /\ UNCHANGED << failures, raised >>
             ELSE /\ SetFailed("local-installation-error")
                  /\ UNCHANGED cudaPath
  /\ UNCHANGED << staticVars, libraryVars, resolverVars, hostVars,
                  networkResult, reportVars >>

\* The tail of run(): if (!cudaPath) throw; the environment is set, then the
\* two outputs.
RunFinish ==
  /\ runPc = "installed"
  /\ IF cudaPath = NoPath
     THEN /\ SetFailed("installation-failed")
          /\ UNCHANGED reportVars
     ELSE /\ env' = setEnvironmentVariables(env, osType, cudaPath)
          /\ envSet' = TRUE
          /\ outputs' = [version |-> resolved, cuda_path |-> cudaPath]
          /\ effects' = effects \o EnvironmentCalls(osType)
                          \o << "setOutput", "setOutput" >>
          /\ runPc' = "done"
          /\ UNCHANGED << failures, raised >>
  /\ UNCHANGED << staticVars, libraryVars, resolverVars, hostVars,
                  installVars >>

NextRun ==
  \/ RunStart
  \/ RunFindVersion
  \/ RunCheckVersion
  \/ RunInstallNetwork
  \/ RunInstallLocal
  \/ RunFinish

SpecRun == Init /\ [][NextRun]_vars

(***************************************************************************)
(* Properties of the version resolver.                                     *)
(***************************************************************************)
Elems(arr) == { arr[i] : i \in 1..Len(arr) }

\* v is a greatest element of the set S under compareVersions.
GreatestOf(v, S) == v \in S /\ \A w \in S : compareVersions(w, v) <= 0

\* The catalog entries that start with the specifier followed by a dot.
DotPrefixed(catalog, input) ==
  { v \in Elems(catalog) : StartsWith(v, input \o <<".">>) }

\* A specifier of the form Major.Minor.
IsMajorMinor(input) ==
  LET parts == Split(input, ".") IN Len(parts) = 2 /\ AllDigitParts(parts)

ScenarioCatalog == << V_11_0, V_11_0_1, V_11_2, V_12_4_1 >>

\* C1: given the catalog ["11.0","11.0.1","11.2","12.4.1"], findCudaVersion
\* resolves "11.0" to "11.0.1", "11" to "11.2", "12.4.1" to "12.4.1" and "13"
\* to not-found.
C1_Scenario ==
  (pc = "resolved" /\ versions = ScenarioCatalog) =>
    /\ inputVersion = V_11_0 => resolved = V_11_0_1
    /\ inputVersion = S_11 => resolved = V_11_2
    /\ inputVersion = V_12_4_1 => resolved = V_12_4_1
    /\ inputVersion = S_13 => resolved = Undefined

\* C2: for a Major.Minor specifier, findCudaVersion returns the greatest
\* catalog entry that is the specifier itself or starts with the specifier
\* followed by a dot (the latest patch of that release).
C2_LatestPatch ==
  (pc = "resolved" /\ IsMajorMinor(inputVersion)) =>
    LET cands == DotPrefixed(versions, inputVersion)
                 \cup (Elems(versions) \cap {inputVersion})
    IN IF cands = {} THEN resolved = Undefined
       ELSE GreatestOf(resolved, cands)

\* C3: for a specifier that is a major number M only, findCudaVersion returns
\* a greatest catalog entry among those starting with M followed by a dot, and
\* the first component of the result is exactly M.
C3_MajorOnly ==
  (pc = "resolved" /\ IsDigits(inputVersion)) =>
    LET cands == DotPrefixed(versions, inputVersion)
    IN IF cands = {} THEN resolved = Undefined
       ELSE /\ GreatestOf(resolved, cands)
            /\ Split(resolved, ".")[1] = inputVersion

C3_Witness ==
  /\ pc = "resolved"
  /\ inputVersion = S_11
  /\ Cardinality(DotPrefixed(versions, S_11)) >= 2
  /\ \E v \in Elems(versions) : StartsWith(v, S_12)
  /\ resolved # Undefined

\* C4: on a non-empty catalog, findCudaVersion("latest") returns the last
\* element of the catalog, which is a maximum of it under compareVersions.
C4_Latest ==
  (pc = "resolved" /\ inputVersion = S_latest /\ Len(versions) > 0) =>
    /\ resolved = versions[Len(versions)]
    /\ GreatestOf(resolved, Elems(versions))

C4_Witness ==
  /\ pc = "resolved"
  /\ inputVersion = S_latest
  /\ Len(versions) >= 3
  /\ resolved = V_12_4_1

CatalogReturned == pc \in {"joined", "resolved"}

\* Major.Minor or Major.Minor.Patch: two or three digit runs joined by dots.
IsVersionShape(v) ==
  LET parts == Split(v, ".")
  IN Len(parts) \in {2, 3} /\ AllDigitParts(parts)

\* C7 as stated: the catalog is strictly ascending under compareVersions.
C7_StrictlyAscending ==
  CatalogReturned =>
    \A i, j \in 1..Len(versions) :
      i < j => compareVersions(versions[i], versions[j]) < 0

\* C7 as amended: the catalog never descends under compareVersions and no
\* string occurs in it twice.
C7_AscendingNoDuplicates ==
  CatalogReturned =>
    \A i, j \in 1..Len(versions) :
      i < j => /\ compareVersions(versions[i], versions[j]) <= 0
               /\ versions[i] # versions[j]

C7_Witness ==
  /\ pc = "joined"
  /\ V_11_0_1 \in Elems(results[1].value)
  /\ V_11_0_1 \in Elems(results[3].value)
  /\ response[2].statusCode # 200
  /\ Len(versions) >= 3

\* What source i contributed, read off the response it gave.
Contribution(i) ==
  IF response[i].statusCode = 200 THEN Fetcher(i, response[i].page) ELSE <<>>

ExpectedCatalog ==
  SelectSeq(sortVersions(SetOrder(Contribution(1) \o Contribution(2)
                                  \o Contribution(3) \o OLD_CUDA_VERSIONS)),
            AtLeastFloor)

\* C8: the three fetches are in flight together; whatever the subset of
\* sources that fail and the order in which the fetches settle, the call
\* returns the sorted, floor-filtered union of the versions of the sources
\* that succeeded and of the legacy list, and a failure never stops it.
C8_Deterministic ==
  /\ pc = "fetching" =>
       /\ \A i \in Sources : i \in inflight \/ response[i].statusCode # 0
       /\ \A i \in Sources :
            i \notin inflight =>
              results[i].status = (IF response[i].statusCode = 200
                                   THEN "fulfilled" ELSE "rejected")
  /\ pc = "joined" =>
       /\ versions = ExpectedCatalog
       /\ Elems(versions) =
            { v \in Elems(Contribution(1)) \cup Elems(Contribution(2))
                    \cup Elems(Contribution(3)) \cup Elems(OLD_CUDA_VERSIONS) :
                AtLeastFloor(v) }
       /\ \A i, j \in 1..Len(versions) :
            i < j => compareVersions(versions[i], versions[j]) <= 0

C8_Witness ==
  /\ pc = "joined"
  /\ response[1].statusCode = 200
  /\ response[2].statusCode = 200
  /\ response[3].statusCode # 200
  /\ V_11_2_0 \in Elems(versions)
  /\ V_11_2 \in Elems(versions)

\* C9: no catalog entry compares below the minimum supported version, so
\* findCudaVersion never resolves to a version below it.
C9_Floor ==
  /\ CatalogReturned => \A v \in Elems(versions) : AtLeastFloor(v)
  /\ (pc = "resolved" /\ resolved # Undefined) => AtLeastFloor(resolved)

C9_Witness ==
  /\ pc = "joined"
  /\ V_9_0 \in Elems(OLD_CUDA_VERSIONS)
  /\ V_9_2 \in Elems(results[3].value)
  /\ V_9_2 \in Elems(results[2].value)
  /\ Len(versions) > 0

\* C10: every version string a fetcher returns, and every catalog entry, has
\* exactly two or three dotted numeric components.
C10_VersionShape ==
  /\ \A i \in Sources : \A v \in Elems(results[i].value) : IsVersionShape(v)
  /\ \A v \in Elems(versions) : IsVersionShape(v)

(***************************************************************************)
(* Properties of the entry point.                                          *)
(***************************************************************************)
\* The specifier matches nothing in the catalog.
NothingMatches ==
  IF inputVersion = S_latest THEN Len(versions) = 0
  ELSE /\ inputVersion \notin Elems(versions)
       /\ DotPrefixed(versions, inputVersion) = {}

\* C6: when the specifier matches nothing (or is "latest" on an empty
\* catalog) findCudaVersion returns undefined; run() then ends in failure
\* with the version-not-found message, having started no installation, and
\* does nothing after that.
C6_NotFound ==
  /\ []((runPc = "resolved" /\ NothingMatches) => resolved = Undefined)
  /\ [][(runPc = "resolved" /\ resolved = Undefined) =>
          /\ runPc' = "failed"
          /\ failures' = <<"version-not-found">>
          /\ attempts' = <<>>
          /\ cudaPath' = NoPath
          /\ envSet' = FALSE
          /\ outputs' = NoOutputs]_vars
  /\ [][runPc = "failed" => UNCHANGED vars]_vars

C6_Witness ==
  /\ runPc = "failed"
  /\ failures = <<"version-not-found">>
  /\ inputVersion = V_99_9
  /\ attempts = <<>>

(***************************************************************************)
(* cuda: findRepoFilename.  A repository listing is the sequence of its    *)
(* filenames, each a text.                                                 *)
(***************************************************************************)
\* Largest number of filenames a fetched listing or manifest holds.
MaxFiles == 2

\* The characters of the filenames in code-unit order.
Alphabet ==
  << "-", ".", "0", "1", "2", "3", "4", "5", "6", "7", "8", "9", "_",
     "a", "b", "c", "d", "e", "f", "g", "h", "i", "j", "k", "l", "m",
     "n", "o", "p", "q", "r", "s", "t", "u", "v", "w", "x", "y", "z" >>

CodeUnit(c) == CHOOSE i \in 1..Len(Alphabet) : Alphabet[i] = c

\* [\w.-] over the characters of the filenames.
IsNameChar(c) == \E i \in 1..Len(Alphabet) : Alphabet[i] = c

\* The default comparison of Array.prototype.sort: by code units, a proper
\* prefix first.
RECURSIVE TextBefore(_, _)
TextBefore(x, y) ==
  IF Len(y) = 0 THEN FALSE
  ELSE IF Len(x) = 0 THEN TRUE
  ELSE IF x[1] # y[1] THEN CodeUnit(x[1]) < CodeUnit(y[1])
  ELSE TextBefore(Tail(x), Tail(y))

\* The last element of files.sort(), or no filename for an empty array.
LastSorted(files) ==
  IF Len(files) = 0 THEN <<>>
  ELSE LET all == { files[i] : i \in 1..Len(files) }
       IN CHOOSE f \in all : \A g \in all : g = f \/ TextBefore(g, f)

T_cuda_keyring == <<"c", "u", "d", "a", "-", "k", "e", "y", "r", "i", "n", "g", "_">>
T_cuda_dash == <<"c", "u", "d", "a", "-">>
T_dot_deb == <<".", "d", "e", "b">>
T_dot_pin == <<".", "p", "i", "n">>
T_dot_repo == <<".", "r", "e", "p", "o">>

\* The ends of the matches of <prefix>[\w.-]+<suffix> that start at s.
MatchEnds(text, s, prefix, suffix) ==
  { e \in (s + Len(prefix) + Len(suffix))..Len(text) :
      /\ SubSeq(text, s, s + Len(prefix) - 1) = prefix
      /\ SubSeq(text, e - Len(suffix) + 1, e) = suffix
      /\ \A k \in (s + Len(prefix))..(e - Len(suffix)) : IsNameChar(text[k]) }

\* RegExp.prototype.exec of <prefix>[\w.-]+<suffix> from the index from: the
\* index after the leftmost, longest match, or 0 when there is none.
MatchEndFrom(text, prefix, suffix, from) ==
  LET starts == { s \in (from + 1)..Len(text) :
                    MatchEnds(text, s, prefix, suffix) # {} }
  IN IF starts = {} THEN 0
     ELSE LET s == CHOOSE x \in starts : \A y \in starts : x <= y
              ends == MatchEnds(text, s, prefix, suffix)
          IN CHOOSE e \in ends : \A f \in ends : e >= f

\* pattern.test(file) of an expression without the g flag.
TestPlain(text, prefix, suffix) == MatchEndFrom(text, prefix, suffix, 0) > 0

\* repoFiles.filter((file) => pattern.test(file)) of an expression with the
\* g flag: every test starts at the lastIndex the test before it left.
RECURSIVE FilterGlobal(_, _, _, _)
FilterGlobal(files, prefix, suffix, lastIndex) ==
  IF Len(files) = 0 THEN <<>>
  ELSE LET end == IF lastIndex > Len(files[1]) THEN 0
                  ELSE MatchEndFrom(files[1], prefix, suffix, lastIndex)
       IN (IF end > 0 THEN <<files[1]>> ELSE <<>>)
          \o FilterGlobal(Tail(files), prefix, suffix, end)

\* repoFiles.filter((file) => pattern.test(file)) without the g flag.
FilterPlain(files, prefix, suffix) ==
  LET Matches(f) == TestPlain(f, prefix, suffix) IN SelectSeq(files, Matches)

findRepoFilename(repoFiles, osInfo) ==
  LET cudaKeyringMatches ==
        FilterGlobal(repoFiles, T_cuda_keyring, T_dot_deb, 0)
      cudaPinMatches == FilterPlain(repoFiles, T_cuda_dash, T_dot_pin)
      cudaRepoMatches == FilterPlain(repoFiles, T_cuda_dash, T_dot_repo)
      notFound == [value |-> <<>>, error |-> "repository-file-not-found"]
      Found(files) == [value |-> LastSorted(files), error |-> "none"]
  IN IF isDebianBased(osInfo)
     THEN IF Len(cudaKeyringMatches) > 0 THEN Found(cudaKeyringMatches)
          ELSE IF Len(cudaPinMatches) > 0 THEN Found(cudaPinMatches)
          ELSE notFound
     ELSE IF isFedoraBased(osInfo)
     THEN IF Len(cudaRepoMatches) > 0 THEN Found(cudaRepoMatches)
          ELSE notFound
     ELSE notFound

\* The filenames a repository listing may hold.
F_keyring_1 == T_cuda_keyring \o <<"1">> \o T_dot_deb
F_keyring_2 == T_cuda_keyring \o <<"2">> \o T_dot_deb
F_pin_a == T_cuda_dash \o <<"a">> \o T_dot_pin
F_pin_b == T_cuda_dash \o <<"b">> \o T_dot_pin
F_repo_a == T_cuda_dash \o <<"a">> \o T_dot_repo
F_repo_b == T_cuda_dash \o <<"b">> \o T_dot_repo
F_package == <<"x">> \o T_dot_deb

ListingPool ==
  { F_keyring_1, F_keyring_2, F_pin_a, F_pin_b, F_repo_a, F_repo_b, F_package }

\* The sequences of up to MaxFiles different elements of a pool.
Arrangements(pool) ==
  UNION { { m \in [1..n -> pool] :
              \A i, j \in 1..n : i # j => m[i] # m[j] } : n \in 0..MaxFiles }

(***************************************************************************)
(* cuda: buildTargetOsName, buildCudaRepoUrl, findAvailablePackages,       *)
(* extractPackageName, findCudaRepoAndPackageLinux.                        *)
(*                                                                         *)
(* A distribution is the record of its id, its version and the family      *)
(* isDebianBased and isFedoraBased read from its id and ID_LIKE.           *)
(***************************************************************************)
UpperCase ==
  << "A", "B", "C", "D", "E", "F", "G", "H", "I", "J", "K", "L", "M",
     "N", "O", "P", "Q", "R", "S", "T", "U", "V", "W", "X", "Y", "Z" >>

LowerCase ==
  << "a", "b", "c", "d", "e", "f", "g", "h", "i", "j", "k", "l", "m",
     "n", "o", "p", "q", "r", "s", "t", "u", "v", "w", "x", "y", "z" >>

\* String.prototype.toLowerCase.
toLowerCase(s) ==
  [i \in 1..Len(s) |->
     IF \E k \in 1..Len(UpperCase) : UpperCase[k] = s[i]
     THEN LowerCase[CHOOSE k \in 1..Len(UpperCase) : UpperCase[k] = s[i]]
     ELSE s[i]]

T_ubuntu == <<"u", "b", "u", "n", "t", "u">>

\* The name with the dots removed.
buildTargetOsNameAllDigits(osInfo) ==
  LET IsNoDot(c) == c # "."
  IN toLowerCase(osInfo.id) \o SelectSeq(osInfo.version, IsNoDot)

buildTargetOsName(osInfo) ==
  LET id == toLowerCase(osInfo.id)
      version == osInfo.version
      IsNoDot(c) == c # "."
      versionPart == IF id = T_ubuntu THEN SelectSeq(version, IsNoDot)
                     ELSE Split(version, ".")[1]
  IN id \o versionPart

T_repos == <<"r", "e", "p", "o", "s", "/">>
T_x86_64_dir == <<"/", "x", "8", "6", "_", "6", "4", "/">>
T_sbsa_dir == <<"/", "s", "b", "s", "a", "/">>

\* The repository URL after .../compute/cuda/; no URL for another
\* architecture.
buildCudaRepoUrl(targetOsName, architecture) ==
  IF architecture = "x86_64" THEN T_repos \o targetOsName \o T_x86_64_dir
  ELSE IF architecture = "arm64-sbsa" THEN T_repos \o targetOsName \o T_sbsa_dir
  ELSE <<>>

\* Array.prototype.sort with the default comparison.
RECURSIVE SortTexts(_)
SortTexts(files) ==
  IF Len(files) = 0 THEN <<>>
  ELSE LET sorted == SortTexts(SubSeq(files, 1, Len(files) - 1))
           x == files[Len(files)]
           k == Cardinality({ i \in 1..Len(sorted) : ~TextBefore(x, sorted[i]) })
       IN SubSeq(sorted, 1, k) \o <<x>> \o SubSeq(sorted, k + 1, Len(sorted))

T_cuda_toolkit_us == <<"c", "u", "d", "a", "-", "t", "o", "o", "l", "k", "i", "t", "_">>
T_cuda_us == <<"c", "u", "d", "a", "_">>
T_cuda_toolkit_dash == <<"c", "u", "d", "a", "-", "t", "o", "o", "l", "k", "i", "t", "-">>

\* findAvailablePackages without its sort.
findAvailablePackagesUnsorted(repoFiles, cudaVersion, osInfo) ==
  LET IsDeb(file) == \/ StartsWith(file, T_cuda_toolkit_us \o cudaVersion)
                     \/ StartsWith(file, T_cuda_us \o cudaVersion)
      IsRpm(file) == \/ StartsWith(file, T_cuda_toolkit_dash \o cudaVersion)
                     \/ StartsWith(file, T_cuda_dash \o cudaVersion)
      availablePackages ==
        IF isDebianBased(osInfo.family) THEN SelectSeq(repoFiles, IsDeb)
        ELSE IF isFedoraBased(osInfo.family) THEN SelectSeq(repoFiles, IsRpm)
        ELSE <<>>
  IN IF Len(availablePackages) = 0
     THEN [value |-> <<>>, error |-> "package-not-found"]
     ELSE [value |-> availablePackages, error |-> "none"]

\* findAvailablePackages: the sorted candidates, or the error it throws.
findAvailablePackages(repoFiles, cudaVersion, osInfo) ==
  LET IsDeb(file) == \/ StartsWith(file, T_cuda_toolkit_us \o cudaVersion)
                     \/ StartsWith(file, T_cuda_us \o cudaVersion)
      IsRpm(file) == \/ StartsWith(file, T_cuda_toolkit_dash \o cudaVersion)
                     \/ StartsWith(file, T_cuda_dash \o cudaVersion)
      availablePackages ==
        IF isDebianBased(osInfo.family) THEN SortTexts(SelectSeq(repoFiles, IsDeb))
        ELSE IF isFedoraBased(osInfo.family) THEN SortTexts(SelectSeq(repoFiles, IsRpm))
        ELSE <<>>
  IN IF Len(availablePackages) = 0
     THEN [value |-> <<>>, error |-> "package-not-found"]
     ELSE [value |-> availablePackages, error |-> "none"]

T_dot_rpm == <<".", "r", "p", "m">>

\* \d+\.\d+\.\d+
IsThreeNumbers(field) ==
  LET parts == Split(field, ".") IN Len(parts) = 3 /\ AllDigitParts(parts)

\* (\d+)\..+\.rpm$ matched against what follows the version and its dash:
\* the release, or no text.
ReleaseOf(rest) ==
  LET release == DigitPrefix(rest)
      after == Drop(rest, Len(release))
  IN IF /\ Len(release) > 0
        /\ Len(after) >= 6
        /\ after[1] = "."
        /\ EndsWith(after, T_dot_rpm)
     THEN release ELSE <<>>

\* extractPackageName passing every filename through.
extractPackageNameUnchanged(packageFile, osInfo) == packageFile

extractPackageName(packageFile, osInfo) ==
  IF isDebianBased(osInfo.family)
  THEN \* /^([^_]+)_([^_]+)_.*\.deb$/
       LET parts == Split(packageFile, "_")
       IN IF /\ Len(parts) >= 3
             /\ Len(parts[1]) > 0
             /\ Len(parts[2]) > 0
             /\ EndsWith(Join(SubSeq(parts, 3, Len(parts)), "_"), T_dot_deb)
          THEN parts[1] \o <<"=">> \o parts[2]
          ELSE packageFile
  ELSE IF isFedoraBased(osInfo.family)
  THEN \* /^(.+)-(\d+\.\d+\.\d+)-(\d+)\..+\.rpm$/ : the greedy (.+) takes
       \* the longest package part that lets the rest match.
       LET parts == Split(packageFile, "-")
           n == Len(parts)
           RestAfter(i) == Join(SubSeq(parts, i + 1, n), "-")
           hits == { i \in 2..(n - 1) :
                       /\ Len(Join(SubSeq(parts, 1, i - 1), "-")) > 0
                       /\ IsThreeNumbers(parts[i])
                       /\ ReleaseOf(RestAfter(i)) # <<>> }
       IN IF hits # {}
          THEN LET i == CHOOSE h \in hits : \A g \in hits : h >= g
               IN Join(SubSeq(parts, 1, i), "-") \o <<"-">>
                    \o ReleaseOf(RestAfter(i))
          ELSE packageFile
  ELSE packageFile

\* The selection that takes the first candidate for every family.
SelectPackageFirst(availablePackages, osInfo) == availablePackages[1]

\* selectedPackage: the first candidate for the Debian family, the last for
\* any other.
SelectPackage(availablePackages, osInfo) ==
  IF isDebianBased(osInfo.family) THEN availablePackages[1]
  ELSE availablePackages[Len(availablePackages)]

\* findCudaRepoAndPackageLinux, given what its two fetches answer: the URLs
\* it asked for, its locals, and what it returned or threw.
findCudaRepoAndPackageLinuxIn(cudaVersion, architecture, osInfo, osFetch, filesFetch) ==
  LET osList == osFetch.items
      targetOsName == buildTargetOsName(osInfo)
      cudaRepoUrl == buildCudaRepoUrl(targetOsName, architecture)
      repoFiles == filesFetch.items
      filename == findRepoFilename(repoFiles, osInfo.family)
      availablePackages == findAvailablePackages(repoFiles, cudaVersion, osInfo)
      selectedPackage == SelectPackage(availablePackages.value, osInfo)
      Throw(error, trace) ==
        [error |-> error, trace |-> trace, targetOsName |-> targetOsName,
         selectedPackage |-> <<>>, repoUrl |-> <<>>, packageName |-> <<>>]
  IN IF osFetch.statusCode # 200 THEN Throw("fetch-failed", << T_repos >>)
     ELSE IF ~Includes(osList, targetOsName)
     THEN Throw("repository-not-found", << T_repos >>)
     ELSE IF cudaRepoUrl = <<>>
     THEN Throw("unsupported-architecture", << T_repos >>)
     ELSE IF filesFetch.statusCode # 200
     THEN Throw("fetch-failed", << T_repos, cudaRepoUrl >>)
     ELSE IF filename.error # "none"
     THEN Throw(filename.error, << T_repos, cudaRepoUrl >>)
     ELSE IF availablePackages.error # "none"
     THEN Throw(availablePackages.error, << T_repos, cudaRepoUrl >>)
     ELSE [error |-> "none", trace |-> << T_repos, cudaRepoUrl >>,
           targetOsName |-> targetOsName,
           selectedPackage |-> selectedPackage,
           repoUrl |-> cudaRepoUrl \o filename.value,
           packageName |-> extractPackageName(selectedPackage, osInfo)]

\* The distributions /etc/os-release may describe.
T_rhel == <<"r", "h", "e", "l">>
T_debian == <<"d", "e", "b", "i", "a", "n">>
T_Ubuntu == <<"U", "b", "u", "n", "t", "u">>
T_22_04 == <<"2", "2", ".", "0", "4">>
T_9_3 == <<"9", ".", "3">>

OsInfos ==
  { [id |-> T_ubuntu, version |-> T_22_04, family |-> "debian"],
    [id |-> T_rhel, version |-> T_9_3, family |-> "fedora"],
    [id |-> T_debian, version |-> S_12, family |-> "debian"],
    [id |-> T_Ubuntu, version |-> T_22_04, family |-> "other"] }

\* The arrays fetchCudaRepoOS may return: sorted directory names.
RepoOsLists ==
  { << T_debian \o S_12, T_rhel \o <<"9">>, T_ubuntu \o <<"2", "2", "0", "4">> >>,
    << T_rhel \o <<"9", "3">>, T_ubuntu \o <<"2", "2">>,
       T_ubuntu \o <<"2", "2", ".", "0", "4">> >> }

T_release_amd64_deb ==
  <<"-", "1", "_", "a", "m", "d", "6", "4", ".", "d", "e", "b">>
T_release_x86_64_rpm ==
  <<"-", "1", ".", "x", "8", "6", "_", "6", "4", ".", "r", "p", "m">>
V_12_4_10 == <<"1", "2", ".", "4", ".", "1", "0">>
V_11_0_3 == <<"1", "1", ".", "0", ".", "3">>

\* The package files a repository listing may hold.
P_deb_toolkit == T_cuda_toolkit_us \o V_12_4_1 \o T_release_amd64_deb
P_deb_cuda == T_cuda_us \o V_12_4_1 \o T_release_amd64_deb
P_deb_toolkit_10 == T_cuda_toolkit_us \o V_12_4_10 \o T_release_amd64_deb
P_deb_toolkit_11 == T_cuda_toolkit_us \o V_11_0_3 \o T_release_amd64_deb
P_rpm_toolkit == T_cuda_toolkit_dash \o V_12_4_1 \o T_release_x86_64_rpm
P_rpm_cuda == T_cuda_dash \o V_12_4_1 \o T_release_x86_64_rpm
P_rpm_toolkit_10 == T_cuda_toolkit_dash \o V_12_4_10 \o T_release_x86_64_rpm
P_rpm_series ==
  T_cuda_toolkit_dash \o <<"1", "2", "-", "4", "-">> \o V_12_4_1
    \o T_release_x86_64_rpm

PackagePool ==
  { P_deb_toolkit, P_deb_cuda, P_deb_toolkit_10, P_deb_toolkit_11,
    P_rpm_toolkit, P_rpm_cuda, P_rpm_toolkit_10 }

\* The registration files listed before the packages.
RegistrationParts == { <<>>, << F_keyring_1 >>, << F_repo_a >> }

\* What a fetch of a listing answers: the items of a 200, or another status.
Fetched(items) == [statusCode |-> 200, items |-> items]

FetchFailed == [statusCode |-> 404, items |-> <<>>]

\* The package files handed to extractPackageName.
P_deb_plain ==
  T_cuda_toolkit_us \o V_12_4_1
    \o <<"_", "a", "m", "d", "6", "4", ".", "d", "e", "b">>
P_deb_no_arch == T_cuda_toolkit_us \o V_12_4_1 \o T_dot_deb
P_rpm_two_numbers ==
  T_cuda_toolkit_dash \o V_12_4 \o T_release_x86_64_rpm
P_rpm_no_arch == T_cuda_toolkit_dash \o V_12_4_1 \o <<"-", "1">> \o T_dot_rpm

ExtractPool ==
  PackagePool \cup
    { P_deb_plain, P_deb_no_arch, P_rpm_series, P_rpm_two_numbers,
      P_rpm_no_arch, F_keyring_1 }

(***************************************************************************)


(* The library functions applied on their own: the arguments are drawn in  *)
(* the initial state and one action applies the function to them.          *)
(***************************************************************************)
\* The versions handed to compareVersions and normalizeCudaVersion.
VersionPool ==
  { V_9_2_148, V_10_2, V_10_2_0, V_10_10, V_10_1_243, V_11_0, V_11_0_1,
    V_12_4_1, V_12_4_1_1 }

CompareCalls ==
  { [fn |-> "compareVersions", a |-> x, b |-> y, c |-> z] :
      x \in VersionPool, y \in VersionPool, z \in VersionPool }

NormalizeCalls ==
  { [fn |-> "normalizeCudaVersion", version |-> v] :
      v \in VersionPool \cup {V_9_0, S_10, S_11} }

OpensourceCalls ==
  { [fn |-> "fetchOpensourceVersions", page |-> page] :
      page \in PagesOf(OpensourcePool) }

RepoFilenameCalls ==
  { [fn |-> "findRepoFilename", repoFiles |-> files, osInfo |-> family] :
      files \in Arrangements(ListingPool), family \in LinuxFamilies }

\* What installCudaLocal meets: whether getCudaLocalInstallerUrl and the
\* download succeed, whether the installer command succeeds, whether the
\* installation root exists afterwards, and whether the log can be printed.
LocalWorlds ==
  [url : BOOLEAN, download : BOOLEAN, exec : BOOLEAN, exists : BOOLEAN,
   log : BOOLEAN]

\* installCudaLinuxLocal and installCudaWindowsLocal: the error thrown, or
\* none.
installCudaPlatformLocal(world) ==
  IF ~world.exec THEN "installer-command-failed"
  ELSE IF ~world.exists THEN "cuda-path-not-found"
  ELSE "none"

\* The steps with a failure of the log dump thrown in place of the error.
installCudaLocalStepsLogThrows(os, world) ==
  LET Throw(error, commands) ==
        [result |-> "throw", error |-> error, commands |-> commands]
      error == installCudaPlatformLocal(world)
  IN IF ~world.url THEN Throw("installer-url-error", <<>>)
     ELSE IF ~world.download THEN Throw("download-failed", <<>>)
     ELSE IF error = "none"
     THEN [result |-> "path", error |-> "none", commands |-> <<"installer">>]
     ELSE IF os # "linux" THEN Throw(error, <<"installer">>)
     ELSE IF ~world.log THEN Throw("log-dump-failed", <<"installer", "cat-log">>)
     ELSE Throw(error, <<"installer", "cat-log">>)

\* installCudaLocal step by step: what it returns or throws, and the
\* commands it ran.  On Linux a failed installation prints the installer's
\* log and throws the error again.
installCudaLocalSteps(os, world) ==
  LET Throw(error, commands) ==
        [result |-> "throw", error |-> error, commands |-> commands]
      error == installCudaPlatformLocal(world)
  IN IF ~world.url THEN Throw("installer-url-error", <<>>)
     ELSE IF ~world.download THEN Throw("download-failed", <<>>)
     ELSE IF error = "none"
     THEN [result |-> "path", error |-> "none", commands |-> <<"installer">>]
     ELSE IF os = "linux" THEN Throw(error, <<"installer", "cat-log">>)
     ELSE Throw(error, <<"installer">>)

InstallLocalCalls ==
  { [fn |-> "installCudaLocal", os |-> os, world |-> world] :
      os \in {"linux", "windows"}, world \in LocalWorlds }

AvailablePackagesCalls ==
  { [fn |-> "findAvailablePackages", repoFiles |-> files, cudaVersion |-> v,
     osInfo |-> osInfo] :
      files \in Arrangements(PackagePool), v \in {V_11_0, V_12_4_1},
      osInfo \in OsInfos }

ExtractPackageNameCalls ==
  { [fn |-> "extractPackageName", packageFile |-> file, osInfo |-> osInfo] :
      file \in ExtractPool, osInfo \in OsInfos }

RepoAndPackageCalls ==
  { [fn |-> "findCudaRepoAndPackageLinux", cudaVersion |-> v,
     arch |-> architecture, osInfo |-> osInfo, osFetch |-> osFetch,
     filesFetch |-> filesFetch] :
      v \in {V_11_0, V_12_4_1},
      architecture \in {"x86_64", "arm64-sbsa"},
      osInfo \in OsInfos,
      osFetch \in { Fetched(osList) : osList \in RepoOsLists } \cup {FetchFailed},
      filesFetch \in
        { Fetched(registration \o packages) :
            registration \in RegistrationParts,
            packages \in Arrangements(PackagePool) } \cup {FetchFailed} }

LibraryCalls ==
  CompareCalls \cup NormalizeCalls \cup OpensourceCalls \cup RepoFilenameCalls
    \cup AvailablePackagesCalls \cup ExtractPackageNameCalls
    \cup RepoAndPackageCalls \cup InstallLocalCalls

InitLibrary ==
  /\ InitAction
  /\ OLD_CUDA_VERSIONS = <<>>
  /\ call \in LibraryCalls
  /\ ret = NotReturned
  /\ LocatorIdle

\* compareVersions applied to each ordered pair of the three versions.
ApplyCompareVersions ==
  /\ call.fn = "compareVersions"
  /\ ~ret.done
  /\ ret' = [done |-> TRUE,
             ab |-> compareVersions(call.a, call.b),
             ba |-> compareVersions(call.b, call.a),
             bc |-> compareVersions(call.b, call.c),
             ac |-> compareVersions(call.a, call.c)]
  /\ UNCHANGED << call, locatorVars, finderVars, staticVars, resolverVars,
                  runVars >>

\* normalizeCudaVersion applied to a version, and to its own result.
ApplyNormalizeCudaVersion ==
  /\ call.fn = "normalizeCudaVersion"
  /\ ~ret.done
  /\ ret' = [done |-> TRUE,
             value |-> normalizeCudaVersion(call.version),
             again |-> normalizeCudaVersion(normalizeCudaVersion(call.version))]
  /\ UNCHANGED << call, locatorVars, finderVars, staticVars, resolverVars,
                  runVars >>

\* fetchOpensourceVersions on the page the directory index answered with.
ApplyFetchOpensourceVersions ==
  /\ call.fn = "fetchOpensourceVersions"
  /\ ~ret.done
  /\ ret' = [done |-> TRUE, value |-> fetchOpensourceVersions(call.page)]
  /\ UNCHANGED << call, locatorVars, finderVars, staticVars, resolverVars,
                  runVars >>

\* findRepoFilename on a listing and a distribution.
ApplyFindRepoFilename ==
  /\ call.fn = "findRepoFilename"
  /\ ~ret.done
  /\ LET found == findRepoFilename(call.repoFiles, call.osInfo)
     IN ret' = [done |-> TRUE, value |-> found.value, error |-> found.error]
  /\ UNCHANGED << call, locatorVars, finderVars, staticVars, resolverVars,
                  runVars >>

\* findAvailablePackages on a listing, a version and a distribution.
ApplyFindAvailablePackages ==
  /\ call.fn = "findAvailablePackages"
  /\ ~ret.done
  /\ LET found == findAvailablePackages(call.repoFiles, call.cudaVersion,
                                        call.osInfo)
     IN ret' = [done |-> TRUE, value |-> found.value, error |-> found.error]
  /\ UNCHANGED << call, locatorVars, finderVars, staticVars, resolverVars,
                  runVars >>

\* extractPackageName on a package file and a distribution.
ApplyExtractPackageName ==
  /\ call.fn = "extractPackageName"
  /\ ~ret.done
  /\ ret' = [done |-> TRUE,
             value |-> extractPackageName(call.packageFile, call.osInfo)]
  /\ UNCHANGED << call, locatorVars, finderVars, staticVars, resolverVars,
                  runVars >>

\* findCudaRepoAndPackageLinux with the answers of its two fetches.
ApplyFindCudaRepoAndPackageLinux ==
  /\ call.fn = "findCudaRepoAndPackageLinux"
  /\ ~ret.done
  /\ LET found == findCudaRepoAndPackageLinuxIn(
                    call.cudaVersion, call.arch, call.osInfo, call.osFetch,
                    call.filesFetch)
     IN ret' = [done |-> TRUE, error |-> found.error, trace |-> found.trace,
                targetOsName |-> found.targetOsName,
                selectedPackage |-> found.selectedPackage,
                repoUrl |-> found.repoUrl, packageName |-> found.packageName]
  /\ UNCHANGED << call, locatorVars, finderVars, staticVars, resolverVars,
                  runVars >>

\* installCudaLocal in the world it meets.
ApplyInstallCudaLocal ==
  /\ call.fn = "installCudaLocal"
  /\ ~ret.done
  /\ LET steps == installCudaLocalSteps(call.os, call.world)
     IN ret' = [done |-> TRUE, result |-> steps.result, error |-> steps.error,
                commands |-> steps.commands]
  /\ UNCHANGED << call, locatorVars, finderVars, staticVars, resolverVars,
                  runVars >>

NextLibrary ==
  \/ ApplyCompareVersions
  \/ ApplyNormalizeCudaVersion
  \/ ApplyFetchOpensourceVersions
  \/ ApplyFindRepoFilename
  \/ ApplyFindAvailablePackages
  \/ ApplyExtractPackageName
  \/ ApplyFindCudaRepoAndPackageLinux
  \/ ApplyInstallCudaLocal

SpecLibrary == InitLibrary /\ [][NextLibrary]_vars

(***************************************************************************)
(* Properties of the library functions.                                    *)
(***************************************************************************)
Sign(n) == IF n < 0 THEN -1 ELSE IF n > 0 THEN 1 ELSE 0

\* The i-th dotted component of a version as an integer, 0 when missing.
ComponentAt(v, i) ==
  LET parts == Split(v, ".")
  IN IF i <= Len(parts) THEN DecimalValue(parts[i]) ELSE 0

\* The sign the first differing component of two versions gives, 0 when no
\* component differs.
FirstDifference(v, w) ==
  LET n == Max(Len(Split(v, ".")), Len(Split(w, ".")))
      diff == { i \in 1..n : ComponentAt(v, i) # ComponentAt(w, i) }
  IN IF diff = {} THEN 0
     ELSE LET k == CHOOSE i \in diff : \A j \in diff : i <= j
          IN Sign(ComponentAt(v, k) - ComponentAt(w, k))

\* C11: compareVersions is a total order consistent with the component-wise
\* integer comparison with missing components read as 0: the sign of
\* compare(a,b) is the opposite of the sign of compare(b,a), compare is
\* transitive, the first differing component decides, and
\* compare("10.2","10.2.0") = 0.
C11_TotalOrder ==
  (call.fn = "compareVersions" /\ ret.done) =>
    /\ Sign(ret.ab) = 0 - Sign(ret.ba)
    /\ (ret.ab <= 0 /\ ret.bc <= 0) => ret.ac <= 0
    /\ (ret.ab < 0 /\ ret.bc <= 0) => ret.ac < 0
    /\ (ret.ab <= 0 /\ ret.bc < 0) => ret.ac < 0
    /\ Sign(ret.ab) = FirstDifference(call.a, call.b)
    /\ (call.a = V_10_2 /\ call.b = V_10_2_0) => ret.ab = 0

C11_Witness ==
  /\ call.fn = "compareVersions"
  /\ ret.done
  /\ call.a = V_10_2
  /\ call.b = V_10_2_0
  /\ call.c = V_10_10
  /\ ret.ab = 0
  /\ ret.bc < 0
  /\ ret.ac < 0

\* The positions of the dots of a text.
DotsOf(v) == { i \in 1..Len(v) : v[i] = "." }

\* The text of a version up to, not including, its second dot; all of it
\* when it has fewer than two.
MajorMinorOf(v) ==
  IF Cardinality(DotsOf(v)) < 2 THEN v
  ELSE LET first == CHOOSE i \in DotsOf(v) : \A j \in DotsOf(v) : i <= j
           rest == DotsOf(v) \ {first}
           second == CHOOSE i \in rest : \A j \in rest : i <= j
       IN SubSeq(v, 1, second - 1)

\* What normalization is stated to do.
NormalForm(v) == IF ComponentAt(v, 1) <= 10 THEN MajorMinorOf(v) ELSE v

\* C12: normalizeCudaVersion drops every component after Major.Minor for a
\* version with major <= 10 and returns a version with major >= 11 unchanged,
\* so it is idempotent; the versions fetchOpensourceVersions returns are
\* exactly the normal forms of the directory names of the index page.
C12_Normalization ==
  /\ (call.fn = "normalizeCudaVersion" /\ ret.done) =>
        /\ ret.value = NormalForm(call.version)
        /\ ret.again = ret.value
  /\ (call.fn = "fetchOpensourceVersions" /\ ret.done) =>
        /\ Elems(ret.value) = { NormalForm(call.page[i]) : i \in 1..Len(call.page) }
        /\ \A v \in Elems(ret.value) :
             ComponentAt(v, 1) <= 10 => Cardinality(DotsOf(v)) <= 1

C12_Witness ==
  /\ call.fn = "fetchOpensourceVersions"
  /\ ret.done
  /\ call.page = << V_10_1_243, V_12_4_1 >>
  /\ ret.value = << V_10_1, V_12_4_1 >>

(***************************************************************************)
(* Properties of the entry point.                                          *)
(***************************************************************************)
\* C13: with method auto the network installer is attempted first and once;
\* the local installer is attempted exactly when the network attempt did not
\* yield an installation path, and then once; nothing is attempted after
\* that.  With method network the local installer is never attempted and
\* with method local the network installer is never attempted.
C13_SingleFallback ==
  /\ inputMethod = "auto" =>
       /\ attempts \in { <<>>, <<"network">>, <<"network", "local">> }
       /\ (attempts # <<>> /\ networkResult = "path") =>
            attempts = <<"network">>
       /\ (attempts # <<>> /\ networkResult # "path") =>
            \/ attempts = <<"network">> /\ runPc = "local"
            \/ attempts = <<"network", "local">>
  /\ inputMethod = "network" => attempts \in { <<>>, <<"network">> }
  /\ inputMethod = "local" => attempts \in { <<>>, <<"local">> }
  /\ runPc = "local" => attempts \in { <<>>, <<"network">> }
  /\ runPc = "network" => attempts = <<>>

C13_Witness ==
  /\ inputMethod = "auto"
  /\ attempts = <<"network", "local">>
  /\ networkResult = "throw"
  /\ runPc = "done"

\* The i-th error raised inside run() was the network error the fallback of
\* the method auto catches.
Absorbed(i) ==
  /\ raised[i] = "network-installation-error"
  /\ inputMethod = "auto"
  /\ i = 1
  /\ attempts[1] = "network"

\* C14: a run ends in exactly one of two outcomes: success, with the outputs
\* version and cuda-path both set and no failure reported, or failure, with
\* one failure reported and neither output set; before it ends nothing is
\* reported.  Every error raised inside run(), other than the network error
\* the auto fallback absorbs, is the one failure reported.
C14_SingleOutcome ==
  /\ runPc = "done" =>
       /\ outputs.version # Undefined
       /\ outputs.cuda_path # NoPath
       /\ failures = <<>>
  /\ runPc = "failed" => (Len(failures) = 1 /\ outputs = NoOutputs)
  /\ runPc \notin {"done", "failed"} =>
       (failures = <<>> /\ outputs = NoOutputs)
  /\ \A i \in 1..Len(raised) :
       \/ Absorbed(i)
       \/ /\ i = Len(raised)
          /\ runPc = "failed"
          /\ failures = << raised[i] >>

C14_Witness ==
  /\ runPc = "failed"
  /\ inputMethod = "auto"
  /\ raised = <<"network-installation-error", "local-installation-error">>
  /\ failures = <<"local-installation-error">>
  /\ outputs = NoOutputs

\* The text of a path-list variable as a later step reads it: an unset
\* variable reads as the empty text.
TextOf(value) == IF value = <<>> THEN << <<>> >> ELSE value

C16_PathVerified ==
  runPc = "done" => pathExists

(***************************************************************************)
(* cuda: getCudaLocalInstallerUrl.                                         *)
(*                                                                         *)
(* A filename is the sequence of its fields between underscores; a URL is  *)
(* the record of what it was built from.                                   *)
(***************************************************************************)
T_cuda == <<"c", "u", "d", "a">>
T_linux == <<"l", "i", "n", "u", "x">>
T_linux_run == <<"l", "i", "n", "u", "x", ".", "r", "u", "n">>
T_sbsa_run == <<"s", "b", "s", "a", ".", "r", "u", "n">>
T_windows_exe == <<"w", "i", "n", "d", "o", "w", "s", ".", "e", "x", "e">>
T_win10_exe == <<"w", "i", "n", "1", "0", ".", "e", "x", "e">>
D_550_54_15 == <<"5", "5", "0", ".", "5", "4", ".", "1", "5">>
D_551_78 == <<"5", "5", "1", ".", "7", "8">>

\* The filenames a checksum manifest may list.
F_linux_550 == << T_cuda, V_12_4_1, D_550_54_15, T_linux_run >>
F_linux_551 == << T_cuda, V_12_4_1, D_551_78, T_linux_run >>
F_sbsa_550 == << T_cuda, V_12_4_1, D_550_54_15, T_linux, T_sbsa_run >>
F_linux_other == << T_cuda, V_11_0_1, D_550_54_15, T_linux_run >>
F_windows == << T_cuda, V_12_4_1, D_551_78, T_windows_exe >>
F_win10 == << T_cuda, V_12_4_1, D_551_78, T_win10_exe >>
F_windows_short == << T_cuda, V_12_4_1, T_windows_exe >>

ManifestPool ==
  { F_linux_550, F_linux_551, F_sbsa_550, F_linux_other, F_windows, F_win10,
    F_windows_short }

\* The manifests: up to MaxFiles different filenames in any order.
Manifests == Arrangements(ManifestPool)

\* fetchMd5sum: the filenames in the order Object.entries lists the keys of
\* the record built from the lines, the first occurrence of each.
fetchMd5sum(lines) == SetOrder(lines)

getDownloadUrl(version, dir, filename) ==
  [kind |-> "download", version |-> version, dir |-> dir, filename |-> filename]

\* A URL held by the static table.
TableUrl(version, slot) ==
  [kind |-> "table", version |-> version, dir |-> slot, filename |-> <<>>]

Link(x86, arm64, windows) ==
  [linuxX86Url |-> x86, linuxArm64Url |-> arm64,
   windowsLocalInstallerUrl |-> windows, windowsNetworkInstallerUrl |-> NoUrl]

FullLink(v) ==
  Link(TableUrl(v, "linuxX86Url"), TableUrl(v, "linuxArm64Url"),
       TableUrl(v, "windowsLocalInstallerUrl"))

\* A table URL of the shape .../local_installers/cuda_<V>_<driver>_win10.exe.
LocalInstallerLink(v) ==
  [kind |-> "table", version |-> v, dir |-> "local_installers",
   filename |-> << T_cuda, v, D_551_78, T_win10_exe >>]

\* A link that also has a network installer URL.
NetworkLink(v) ==
  [FullLink(v) EXCEPT
     !.windowsNetworkInstallerUrl = TableUrl(v, "windowsNetworkInstallerUrl")]

\* The contents the static table may have.
LinkTables ==
  { <<>>,
    [v \in {V_9_2, V_10_2, V_12_4_1} |->
       IF v = V_12_4_1 THEN Link(TableUrl(v, "linuxX86Url"), NoUrl, NoUrl)
       ELSE FullLink(v)],
    [v \in {V_10_2} |->
       Link(NoUrl, NoUrl, TableUrl(v, "windowsLocalInstallerUrl"))],
    [v \in {V_10_2, V_11_0_1, V_12_4_1} |->
       IF v = V_10_2 THEN Link(NoUrl, NoUrl, LocalInstallerLink(v))
       ELSE IF v = V_11_0_1 THEN Link(NoUrl, NoUrl, NoUrl)
       ELSE NetworkLink(v)] }

\* The arguments getCudaLocalInstallerUrl is called with.
LocatorRequests ==
  { r \in [version : {V_9_2, V_10_2, V_11_0_1, V_12_4_1},
           os : {"linux", "windows"},
           arch : {"x86_64", "arm64-sbsa"}] :
      ~(r.os = "windows" /\ r.arch = "arm64-sbsa") }

\* \d+\.\d+(\.\d+)? between two underscores.
IsDriverVersion(field) ==
  LET parts == Split(field, ".")
  IN Len(parts) \in {2, 3} /\ AllDigitParts(parts)

\* filename.match(/cuda_<version>_\d+\.\d+(\.\d+)?_linux\.run/)
MatchesLinuxRun(filename, version) ==
  \E i \in 1..(Len(filename) - 3) :
    /\ EndsWith(filename[i], T_cuda)
    /\ filename[i + 1] = version
    /\ IsDriverVersion(filename[i + 2])
    /\ StartsWith(filename[i + 3], T_linux_run)

\* filename.match(/cuda_<version>_\d+\.\d+(\.\d+)?_linux_sbsa\.run/)
MatchesLinuxSbsaRun(filename, version) ==
  \E i \in 1..(Len(filename) - 4) :
    /\ EndsWith(filename[i], T_cuda)
    /\ filename[i + 1] = version
    /\ IsDriverVersion(filename[i + 2])
    /\ filename[i + 3] = T_linux
    /\ StartsWith(filename[i + 4], T_sbsa_run)

\* filename.endsWith('_windows.exe') and filename.endsWith('_win10.exe')
EndsWithField(filename, field) ==
  Len(filename) >= 2 /\ filename[Len(filename)] = field

\* The first entry that satisfies a test, or no filename.
FirstWhere(entries, Test(_)) ==
  LET hits == { i \in 1..Len(entries) : Test(entries[i]) }
  IN IF hits = {} THEN <<>>
     ELSE entries[CHOOSE i \in hits : \A j \in hits : i <= j]

\* The last entry that satisfies a test, or no filename.
LastWhere(entries, Test(_)) ==
  LET hits == { i \in 1..Len(entries) : Test(entries[i]) }
  IN IF hits = {} THEN <<>>
     ELSE entries[CHOOSE i \in hits : \A j \in hits : i >= j]

\* The selection with the architecture test of the Linux branch dropped.
SelectInstallerAnyArch(entries, version, os, architecture) ==
  LET IsRun(f) == MatchesLinuxRun(f, version) \/ MatchesLinuxSbsaRun(f, version)
  IN FirstWhere(entries, IsRun)

\* The Windows branch taking the first filename of either ending.
SelectInstallerFirstOfEither(entries, version, os, architecture) ==
  LET IsEither(f) == \/ EndsWithField(f, T_windows_exe)
                     \/ EndsWithField(f, T_win10_exe)
  IN FirstWhere(entries, IsEither)

\* The loops over Object.entries(md5sums): targetFilename, or no filename.
SelectInstaller(entries, version, os, architecture) ==
  IF os = "linux"
  THEN LET IsX86(f) == MatchesLinuxRun(f, version)
           IsSbsa(f) == MatchesLinuxSbsaRun(f, version)
       IN IF architecture = "x86_64" THEN FirstWhere(entries, IsX86)
          ELSE FirstWhere(entries, IsSbsa)
  ELSE LET IsWindows(f) == EndsWithField(f, T_windows_exe)
           IsWin10(f) == EndsWithField(f, T_win10_exe)
           windowsFilename == FirstWhere(entries, IsWindows)
           before == IF windowsFilename = <<>> THEN entries
                     ELSE LET k == CHOOSE i \in 1..Len(entries) :
                                     /\ IsWindows(entries[i])
                                     /\ \A j \in 1..(i - 1) : ~IsWindows(entries[j])
                          IN SubSeq(entries, 1, k - 1)
           win10Filename == LastWhere(before, IsWin10)
       IN IF windowsFilename # <<>> THEN windowsFilename ELSE win10Filename

Thrown(error) == [status |-> "thrown", url |-> NoUrl, error |-> error]

Returned(url) == [status |-> "returned", url |-> url, error |-> "none"]

AwaitManifest == [status |-> "pending", url |-> NoUrl, error |-> "none"]

\* What the function does with the table once the version passed the two
\* support checks.
TableStep(links, version, os, architecture) ==
  LET majorVersion == ParseInt(Split(version, ".")[1])
      inTable == version \in DOMAIN links
      slot == IF os = "linux" /\ architecture = "x86_64" THEN "linuxX86Url"
              ELSE IF os = "linux" THEN "linuxArm64Url"
              ELSE "windowsLocalInstallerUrl"
  IN IF inTable /\ links[version][slot] # NoUrl
     THEN Returned(links[version][slot])
     ELSE IF majorVersion <= 10
     THEN IF inTable THEN Returned(links[version][slot])
          ELSE Thrown("type-error")
     ELSE AwaitManifest

\* The head with the table consulted before the support checks.
LocatorHeadTableFirst(links, version, os, architecture) ==
  LET fromTable == TableStep(links, version, os, architecture)
      majorVersion == ParseInt(Split(version, ".")[1])
  IN IF fromTable.status = "returned" /\ fromTable.url # NoUrl
     THEN [outcome |-> fromTable, trace |-> <<"table">>]
     ELSE IF compareVersions(version, START_SUPPORTED_CUDA_VERSION) < 0
     THEN [outcome |-> Thrown("unsupported-version"), trace |-> <<"table">>]
     ELSE IF majorVersion <= 10 /\ os = "linux" /\ architecture = "arm64-sbsa"
     THEN [outcome |-> Thrown("unsupported-combination"), trace |-> <<"table">>]
     ELSE [outcome |-> fromTable, trace |-> <<"table">>]

\* The head with the table lookup left out for the versions of major >= 11.
LocatorHeadNoOverride(links, version, os, architecture) ==
  LET majorVersion == ParseInt(Split(version, ".")[1])
  IN IF compareVersions(version, START_SUPPORTED_CUDA_VERSION) < 0
     THEN [outcome |-> Thrown("unsupported-version"), trace |-> <<>>]
     ELSE IF majorVersion <= 10 /\ os = "linux" /\ architecture = "arm64-sbsa"
     THEN [outcome |-> Thrown("unsupported-combination"), trace |-> <<>>]
     ELSE IF majorVersion <= 10
     THEN [outcome |-> TableStep(links, version, os, architecture), trace |-> <<"table">>]
     ELSE [outcome |-> AwaitManifest, trace |-> <<>>]

\* getCudaLocalInstallerUrl up to its await: the two support checks, then
\* the table.
LocatorHead(links, version, os, architecture) ==
  LET majorVersion == ParseInt(Split(version, ".")[1])
  IN IF compareVersions(version, START_SUPPORTED_CUDA_VERSION) < 0
     THEN [outcome |-> Thrown("unsupported-version"), trace |-> <<>>]
     ELSE IF majorVersion <= 10 /\ os = "linux" /\ architecture = "arm64-sbsa"
     THEN [outcome |-> Thrown("unsupported-combination"), trace |-> <<>>]
     ELSE [outcome |-> TableStep(links, version, os, architecture), trace |-> <<"table">>]

InitLocator ==
  /\ InitAction
  /\ OLD_CUDA_VERSIONS = <<>>
  /\ call = NoCall
  /\ ret = NotReturned
  /\ CUDA_LINKS \in LinkTables
  /\ locPc = "idle"
  /\ locArgs \in LocatorRequests
  /\ locTrace = <<>>
  /\ md5sums = <<>>
  /\ locReturn = NotSettled
  /\ netPc \in (IF locArgs.os = "windows" THEN {"none", "idle"} ELSE {"none"})
  /\ probeUrl = NoUrl
  /\ probe = "none"
  /\ netReturn = NotSettled

\* The call of getCudaLocalInstallerUrl, by itself or from
\* findCudaNetworkInstallerWindows: it throws, returns a table URL, or asks
\* for the checksum manifest.
LocatorCall ==
  /\ locPc = "idle"
  /\ netPc \in {"none", "locating"}
  /\ LET head == LocatorHead(CUDA_LINKS, locArgs.version, locArgs.os, locArgs.arch)
     IN IF head.outcome.status = "pending"
        THEN /\ locPc' = "fetching"
             /\ locTrace' = head.trace \o <<"manifest">>
             /\ UNCHANGED locReturn
        ELSE /\ locPc' = "settled"
             /\ locTrace' = head.trace
             /\ locReturn' = head.outcome
  /\ UNCHANGED << CUDA_LINKS, locArgs, md5sums, call, ret, finderVars,
                  staticVars, resolverVars, runVars >>

\* The manifest answers 200: the first matching filename makes the URL, no
\* match throws.
Md5sumFulfilled ==
  /\ locPc = "fetching"
  /\ \E lines \in Manifests :
       LET entries == fetchMd5sum(lines)
           targetFilename ==
             SelectInstaller(entries, locArgs.version, locArgs.os, locArgs.arch)
       IN /\ md5sums' = entries
          /\ locReturn' =
               IF targetFilename = <<>> THEN Thrown("no-matching-installer")
               ELSE Returned(getDownloadUrl(locArgs.version, "local_installers",
                                            targetFilename))
  /\ locPc' = "settled"
  /\ UNCHANGED << CUDA_LINKS, locArgs, locTrace, call, ret, finderVars,
                  staticVars, resolverVars, runVars >>

\* The manifest answers with another status: fetchMd5sum throws.
Md5sumRejected ==
  /\ locPc = "fetching"
  /\ locReturn' = Thrown("manifest-fetch-failed")
  /\ locPc' = "settled"
  /\ UNCHANGED << CUDA_LINKS, locArgs, locTrace, md5sums, call, ret,
                  finderVars, staticVars, resolverVars, runVars >>

(***************************************************************************)
(* cuda: findCudaNetworkInstallerWindows.                                  *)
(***************************************************************************)
T_dot_exe == <<".", "e", "x", "e">>
T_network_exe == <<"n", "e", "t", "w", "o", "r", "k", ".", "e", "x", "e">>

\* url.replace(/local_installers\/cuda_([^_]+)_[^_]+_(.+)\.exe/,
\*             'network_installers/cuda_$1_$2_network.exe'):
\* a URL the pattern does not match is left as it is.
NetworkInstallerUrl(url) ==
  LET f == url.filename
      rest == Join(SubSeq(f, 4, Len(f)), "_")
      ends == { i \in 2..(Len(rest) - 3) : SubSeq(rest, i, i + 3) = T_dot_exe }
  IN IF /\ url.dir = "local_installers"
        /\ Len(f) >= 4
        /\ f[1] = T_cuda
        /\ f[2] # <<>>
        /\ f[3] # <<>>
        /\ ends # {}
     THEN LET k == CHOOSE i \in ends : \A j \in ends : i >= j
              name == Join(<< T_cuda, f[2], SubSeq(rest, 1, k - 1),
                              T_network_exe >>, "_") \o Drop(rest, k + 3)
          IN [url EXCEPT !.dir = "network_installers",
                         !.filename = Split(name, "_")]
     ELSE url

\* The answers of client.head(url): a status code, or a rejection.
ProbeAnswers == {"200", "404", "rejected"}

\* The existence probe with its rejection left uncaught.
ProbeOutcomeUncaught(url, answer) ==
  IF answer = "200" THEN Returned(url)
  ELSE IF answer = "rejected" THEN Thrown("head-request-failed")
  ELSE Returned(NoUrl)

\* The try/catch around client.head(url) and the return after it.
ProbeOutcome(url, answer) ==
  IF answer = "200" THEN Returned(url) ELSE Returned(NoUrl)

\* The call of findCudaNetworkInstallerWindows: the table's network
\* installer URL, or the call of getCudaLocalInstallerUrl for Windows.
FinderCall ==
  /\ netPc = "idle"
  /\ IF /\ locArgs.version \in DOMAIN CUDA_LINKS
        /\ CUDA_LINKS[locArgs.version].windowsNetworkInstallerUrl # NoUrl
     THEN /\ netPc' = "settled"
          /\ netReturn' =
               Returned(CUDA_LINKS[locArgs.version].windowsNetworkInstallerUrl)
     ELSE /\ netPc' = "locating"
          /\ UNCHANGED netReturn
  /\ UNCHANGED << probeUrl, probe, call, ret, locatorVars, staticVars,
                  resolverVars, runVars >>

\* getCudaLocalInstallerUrl settled: its error leaves the function, its URL
\* is rewritten and asked for with HEAD.
FinderLocated ==
  /\ netPc = "locating"
  /\ locPc = "settled"
  /\ IF locReturn.status = "thrown"
     THEN /\ netPc' = "settled"
          /\ netReturn' = locReturn
          /\ UNCHANGED probeUrl
     ELSE IF locReturn.url = NoUrl
     THEN /\ netPc' = "settled"
          /\ netReturn' = Thrown("type-error")
          /\ UNCHANGED probeUrl
     ELSE /\ netPc' = "probing"
          /\ probeUrl' = NetworkInstallerUrl(locReturn.url)
          /\ UNCHANGED netReturn
  /\ UNCHANGED << probe, call, ret, locatorVars, staticVars, resolverVars,
                  runVars >>

\* The HEAD request settles.
ProbeAnswered ==
  /\ netPc = "probing"
  /\ \E answer \in ProbeAnswers :
       /\ netReturn' = ProbeOutcome(probeUrl, answer)
       /\ probe' = answer
  /\ netPc' = "settled"
  /\ UNCHANGED << probeUrl, call, ret, locatorVars, staticVars, resolverVars,
                  runVars >>

NextLocator ==
  \/ LocatorCall
  \/ Md5sumFulfilled
  \/ Md5sumRejected
  \/ FinderCall
  \/ FinderLocated
  \/ ProbeAnswered

SpecLocator == InitLocator /\ [][NextLocator]_vars

(***************************************************************************)
(* Properties of getCudaLocalInstallerUrl.                                 *)
(***************************************************************************)
MajorOf(version) == ComponentAt(version, 1)

\* C17: getCudaLocalInstallerUrl fails for every version that compares below
\* the minimum supported version and for every version of major <= 10 on
\* Linux arm64, without having consulted the table or asked for a manifest,
\* whatever the table holds for that version.
C17_SupportChecksFirst ==
  (locPc # "idle" /\
     \/ FirstDifference(locArgs.version, START_SUPPORTED_CUDA_VERSION) < 0
     \/ MajorOf(locArgs.version) <= 10 /\ locArgs.os = "linux"
        /\ locArgs.arch = "arm64-sbsa") =>
    /\ locPc = "settled"
    /\ locReturn.status = "thrown"
    /\ locReturn.error \in {"unsupported-version", "unsupported-combination"}
    /\ locTrace = <<>>
    /\ md5sums = <<>>

C17_Witness ==
  /\ locPc = "settled"
  /\ locArgs = [version |-> V_10_2, os |-> "linux", arch |-> "arm64-sbsa"]
  /\ V_10_2 \in DOMAIN CUDA_LINKS
  /\ CUDA_LINKS[V_10_2].linuxArm64Url # NoUrl
  /\ locReturn = Thrown("unsupported-combination")

(***************************************************************************)
(* Properties of findRepoFilename.                                         *)
(***************************************************************************)
\* The filenames of a listing of the shape <prefix><something><suffix>.
Shaped(files, prefix, suffix) ==
  { f \in Elems(files) :
      /\ StartsWith(f, prefix)
      /\ EndsWith(f, suffix)
      /\ Len(f) > Len(prefix) + Len(suffix) }

\* The element of a non-empty set of texts that no other follows.
TextMax(S) == CHOOSE f \in S : \A g \in S : g = f \/ TextBefore(g, f)

Supported ==
  /\ FirstDifference(locArgs.version, START_SUPPORTED_CUDA_VERSION) >= 0
  /\ ~(MajorOf(locArgs.version) <= 10 /\ locArgs.os = "linux"
       /\ locArgs.arch = "arm64-sbsa")

\* The URL the table holds for the exact triple of the call, NoUrl when it
\* holds none.
OverrideUrl ==
  IF locArgs.version \notin DOMAIN CUDA_LINKS THEN NoUrl
  ELSE LET link == CUDA_LINKS[locArgs.version]
       IN IF locArgs.os = "windows" THEN link.windowsLocalInstallerUrl
          ELSE IF locArgs.arch = "x86_64" THEN link.linuxX86Url
          ELSE link.linuxArm64Url

ManifestAsked == \E i \in 1..Len(locTrace) : locTrace[i] = "manifest"

\* C19: when the table has a URL for the exact (version, OS, arch) triple and
\* the version passed the support checks, getCudaLocalInstallerUrl returns
\* that URL without asking for the checksum manifest; for a version of major
\* <= 10 the result comes from the table only and no manifest is asked for.
C19_OverrideFirst ==
  (locPc # "idle" /\ Supported) =>
    /\ OverrideUrl # NoUrl =>
         /\ locPc = "settled"
         /\ locReturn = Returned(OverrideUrl)
         /\ ~ManifestAsked
         /\ md5sums = <<>>
    /\ MajorOf(locArgs.version) <= 10 =>
         /\ locPc = "settled"
         /\ ~ManifestAsked
         /\ md5sums = <<>>
         /\ locReturn.status = "returned" => locReturn.url = OverrideUrl
         /\ locReturn.status = "thrown" =>
              locArgs.version \notin DOMAIN CUDA_LINKS

C19_Witness ==
  /\ locPc = "settled"
  /\ locArgs = [version |-> V_12_4_1, os |-> "linux", arch |-> "x86_64"]
  /\ locReturn = Returned(TableUrl(V_12_4_1, "linuxX86Url"))
  /\ locTrace = <<"table">>

\* A filename of the shape cuda_<version>_<driver>_linux.run.
IsLinuxRunOf(f, version) ==
  /\ Len(f) = 4
  /\ f[1] = T_cuda
  /\ f[2] = version
  /\ IsDriverVersion(f[3])
  /\ f[4] = T_linux_run

\* A filename of the shape cuda_<version>_<driver>_linux_sbsa.run.
IsLinuxSbsaRunOf(f, version) ==
  /\ Len(f) = 5
  /\ f[1] = T_cuda
  /\ f[2] = version
  /\ IsDriverVersion(f[3])
  /\ f[4] = T_linux
  /\ f[5] = T_sbsa_run

\* C20: for a version of major >= 11 on Linux that the table does not cover,
\* getCudaLocalInstallerUrl returns the local_installers URL of the first
\* manifest filename of the shape cuda_<version>_<driver>_linux.run on x86_64
\* or cuda_<version>_<driver>_linux_sbsa.run on arm64, never an installer of
\* the other architecture, and fails with no-matching-installer when no
\* filename has that shape.
C20_FirstMatchingInstaller ==
  (/\ locPc = "settled"
   /\ Supported
   /\ MajorOf(locArgs.version) >= 11
   /\ locArgs.os = "linux"
   /\ OverrideUrl = NoUrl
   /\ locReturn.error # "manifest-fetch-failed") =>
    LET Wanted(f) == IF locArgs.arch = "x86_64"
                     THEN IsLinuxRunOf(f, locArgs.version)
                     ELSE IsLinuxSbsaRunOf(f, locArgs.version)
        hits == { i \in 1..Len(md5sums) : Wanted(md5sums[i]) }
    IN /\ ManifestAsked
       /\ IF hits = {} THEN locReturn = Thrown("no-matching-installer")
          ELSE LET first == CHOOSE i \in hits : \A j \in hits : i <= j
               IN /\ locReturn.status = "returned"
                  /\ locReturn.url.kind = "download"
                  /\ locReturn.url.version = locArgs.version
                  /\ locReturn.url.dir = "local_installers"
                  /\ locReturn.url.filename = md5sums[first]
       /\ locReturn.status = "returned" =>
            /\ locArgs.arch = "x86_64" =>
                 ~IsLinuxSbsaRunOf(locReturn.url.filename, locArgs.version)
            /\ locArgs.arch = "arm64-sbsa" =>
                 ~IsLinuxRunOf(locReturn.url.filename, locArgs.version)

C20_Witness ==
  /\ locPc = "settled"
  /\ locArgs = [version |-> V_12_4_1, os |-> "linux", arch |-> "x86_64"]
  /\ V_12_4_1 \notin DOMAIN CUDA_LINKS
  /\ md5sums = << F_sbsa_550, F_linux_551 >>
  /\ locReturn = Returned(getDownloadUrl(V_12_4_1, "local_installers", F_linux_551))

(***************************************************************************)
(* Properties of getCudaLocalInstallerUrl: the Windows branch.             *)
(***************************************************************************)
\* The filename has a last field after an underscore, and it is this one.
EndsInField(f, field) == Len(f) > 1 /\ f[Len(f)] = field

\* C21: for a Windows request answered from the checksum manifest, the
\* selected filename ends in _windows.exe whenever the manifest lists such a
\* filename, wherever it stands relative to the _win10.exe entries; a
\* filename ending in _win10.exe is selected only when there is no
\* _windows.exe entry; the call fails with no-matching-installer when there
\* is neither.
C21_WindowsPreferred ==
  (/\ locPc = "settled"
   /\ locArgs.os = "windows"
   /\ ManifestAsked
   /\ locReturn.error # "manifest-fetch-failed") =>
    LET windows == { f \in Elems(md5sums) : EndsInField(f, T_windows_exe) }
        win10 == { f \in Elems(md5sums) : EndsInField(f, T_win10_exe) }
    IN IF windows # {}
       THEN /\ locReturn.status = "returned"
            /\ locReturn.url.dir = "local_installers"
            /\ locReturn.url.filename \in windows
       ELSE IF win10 # {}
       THEN /\ locReturn.status = "returned"
            /\ locReturn.url.dir = "local_installers"
            /\ locReturn.url.filename \in win10
       ELSE locReturn = Thrown("no-matching-installer")

C21_Witness ==
  /\ locPc = "settled"
  /\ locArgs = [version |-> V_12_4_1, os |-> "windows", arch |-> "x86_64"]
  /\ md5sums = << F_win10, F_windows >>
  /\ locReturn = Returned(getDownloadUrl(V_12_4_1, "local_installers", F_windows))

(***************************************************************************)
(* Properties of findCudaNetworkInstallerWindows.                          *)
(***************************************************************************)
\* The network installer URL the table holds for the version of the call,
\* NoUrl when it holds none.
NetworkOverrideUrl ==
  IF locArgs.version \notin DOMAIN CUDA_LINKS THEN NoUrl
  ELSE CUDA_LINKS[locArgs.version].windowsNetworkInstallerUrl

\* C22: findCudaNetworkInstallerWindows returns the table's network
\* installer URL when the table has one; otherwise it returns the URL derived
\* from the local installer URL only if the existence probe answered success,
\* and it returns undefined, without throwing, whenever the probe failed or
\* answered non-success.
C22_ProbeDecides ==
  netPc = "settled" =>
    IF NetworkOverrideUrl # NoUrl
    THEN /\ netReturn = Returned(NetworkOverrideUrl)
         /\ probe = "none"
    ELSE /\ (netReturn.status = "returned" /\ netReturn.url # NoUrl) =>
              /\ probe = "200"
              /\ netReturn.url = probeUrl
         /\ probe = "200" => netReturn = Returned(probeUrl)
         /\ probe \in {"404", "rejected"} => netReturn = Returned(NoUrl)
         /\ netReturn.status = "thrown" => probe = "none"

C22_Witness ==
  /\ netPc = "settled"
  /\ locArgs.version = V_12_4_1
  /\ NetworkOverrideUrl = NoUrl
  /\ md5sums = << F_win10, F_windows >>
  /\ probeUrl.dir = "network_installers"
  /\ probe = "rejected"
  /\ netReturn = Returned(NoUrl)

\* C27: every URL findCudaNetworkInstallerWindows returns without taking it
\* from the table's network installer entry lies in the network_installers
\* directory and ends in _network.exe; the local installer URL is never
\* returned unchanged as the network installer.
C27_NetworkInstallerOnly ==
  (/\ netPc = "settled"
   /\ NetworkOverrideUrl = NoUrl
   /\ netReturn.status = "returned"
   /\ netReturn.url # NoUrl) =>
    /\ netReturn.url.dir = "network_installers"
    /\ EndsInField(netReturn.url.filename, T_network_exe)
    /\ netReturn.url # locReturn.url

(***************************************************************************)
(* Properties of findCudaRepoAndPackageLinux and its helpers.              *)
(***************************************************************************)
T_ubuntu2204 == <<"u", "b", "u", "n", "t", "u", "2", "2", "0", "4">>
T_rhel9 == <<"r", "h", "e", "l", "9">>

\* The directory name the distribution of the call stands for.
ExpectedOsName(osInfo) ==
  LET id == toLowerCase(osInfo.id)
      numbers == Split(osInfo.version, ".")
  IN IF id = T_ubuntu THEN id \o Flatten(numbers) ELSE id \o numbers[1]

Candidates(files, version, family) ==
  { f \in Elems(files) :
      IF family = "debian"
      THEN \/ StartsWith(f, T_cuda_toolkit_us \o version)
           \/ StartsWith(f, T_cuda_us \o version)
      ELSE IF family = "fedora"
      THEN \/ StartsWith(f, T_cuda_toolkit_dash \o version)
           \/ StartsWith(f, T_cuda_dash \o version)
      ELSE FALSE }

\* The element of a non-empty set of texts that follows no other.
TextMin(S) == CHOOSE f \in S : \A g \in S : g = f \/ TextBefore(f, g)

T_deb_example ==
  <<"c", "u", "d", "a", "-", "t", "o", "o", "l", "k", "i", "t", "=",
    "1", "2", ".", "4", ".", "1">>
T_rpm_example ==
  <<"c", "u", "d", "a", "-", "t", "o", "o", "l", "k", "i", "t", "-",
    "1", "2", "-", "4", "-", "1", "2", ".", "4", ".", "1", "-", "1">>

\* The positions of a character in a text.
PositionsOf(f, c) == { i \in 1..Len(f) : f[i] = c }

\* The ways to read a filename as <pkg>_<version>_<arch>.deb: the positions of
\* the two underscores.
DebReadings(f) ==
  { p \in PositionsOf(f, "_") \X PositionsOf(f, "_") :
      /\ 1 < p[1]
      /\ p[1] + 1 < p[2]
      /\ PositionsOf(SubSeq(f, 1, p[2] - 1), "_") = {p[1]}
      /\ Len(f) >= p[2] + Len(T_dot_deb)
      /\ EndsWith(f, T_dot_deb) }

\* The ways to read a filename as <pkg>-<version>-<release>.<arch>.rpm: the
\* positions of the dash before the version, of the dash after it, and of the
\* dot after the release.
RpmReadings(f) ==
  { p \in PositionsOf(f, "-") \X PositionsOf(f, "-") \X PositionsOf(f, ".") :
      /\ 1 < p[1]
      /\ p[1] < p[2]
      /\ p[2] + 1 < p[3]
      /\ IsThreeNumbers(SubSeq(f, p[1] + 1, p[2] - 1))
      /\ IsDigits(SubSeq(f, p[2] + 1, p[3] - 1))
      /\ Len(f) >= p[3] + 1 + Len(T_dot_rpm)
      /\ EndsWith(f, T_dot_rpm) }

\* C25: extractPackageName maps a Debian filename <pkg>_<version>_<arch>.deb
\* to <pkg>=<version> (cuda-toolkit_12.4.1_amd64.deb gives
\* cuda-toolkit=12.4.1) and a Fedora filename
\* <pkg>-<version>-<release>.<arch>.rpm to <pkg>-<version>-<release>
\* (cuda-toolkit-12-4-12.4.1-1.x86_64.rpm gives cuda-toolkit-12-4-12.4.1-1);
\* a filename that does not have the expected shape is returned unchanged,
\* and the call always returns.
C25_PackageName ==
  (call.fn = "extractPackageName" /\ ret.done) =>
    LET f == call.packageFile
        family == call.osInfo.family
    IN /\ family = "debian" =>
            IF DebReadings(f) = {} THEN ret.value = f
            ELSE \E p \in DebReadings(f) :
                   ret.value = SubSeq(f, 1, p[1] - 1) \o <<"=">>
                                 \o SubSeq(f, p[1] + 1, p[2] - 1)
       /\ family = "fedora" =>
            IF RpmReadings(f) = {} THEN ret.value = f
            ELSE \E p \in RpmReadings(f) : ret.value = SubSeq(f, 1, p[3] - 1)
       /\ family = "other" => ret.value = f
       /\ (family = "debian" /\ f = P_deb_plain) => ret.value = T_deb_example
       /\ (family = "fedora" /\ f = P_rpm_series) => ret.value = T_rpm_example

C25_Witness ==
  /\ call.fn = "extractPackageName"
  /\ ret.done
  /\ call.osInfo.id = T_rhel
  /\ call.packageFile = P_rpm_series
  /\ ret.value = T_rpm_example

\* The character that follows the requested version in a candidate goes on
\* with the version: the file is a package of another version.
OfAnotherVersion(f, version, family) ==
  \E c \in {"0", "1", "2", "3", "4", "5", "6", "7", "8", "9", "."} :
    LET longer == version \o <<c>>
    IN IF family = "debian"
       THEN \/ StartsWith(f, T_cuda_toolkit_us \o longer)
            \/ StartsWith(f, T_cuda_us \o longer)
       ELSE \/ StartsWith(f, T_cuda_toolkit_dash \o longer)
            \/ StartsWith(f, T_cuda_dash \o longer)

\* C28: the package findCudaRepoAndPackageLinux reports is a package of
\* exactly the requested version: a listing file of another version whose
\* name merely begins with the requested version (12.4.10 for 12.4.1, 11.0.3
\* for 11.0) is never selected.
C28_ExactVersion ==
  (call.fn = "findCudaRepoAndPackageLinux" /\ ret.done /\ ret.error = "none") =>
    ~OfAnotherVersion(ret.selectedPackage, call.cudaVersion,
                      call.osInfo.family)

\* C29: whenever the listing holds both a cuda-toolkit package and a cuda
\* meta-package among the candidates for the requested version,
\* findCudaRepoAndPackageLinux selects the cuda-toolkit package, on the
\* Debian family and on the Fedora family alike.
C29_ToolkitPreferred ==
  (call.fn = "findCudaRepoAndPackageLinux" /\ ret.done /\ ret.error = "none") =>
    LET family == call.osInfo.family
        candidates ==
          Candidates(call.filesFetch.items, call.cudaVersion, family)
        toolkit == IF family = "debian" THEN T_cuda_toolkit_us
                   ELSE T_cuda_toolkit_dash
        meta == IF family = "debian" THEN T_cuda_us ELSE T_cuda_dash
        IsToolkit(f) == StartsWith(f, toolkit \o call.cudaVersion)
        IsMeta(f) == StartsWith(f, meta \o call.cudaVersion)
    IN ((\E f \in candidates : IsToolkit(f)) /\ (\E f \in candidates : IsMeta(f)))
         => /\ IsToolkit(ret.selectedPackage)
            /\ StartsWith(ret.packageName, T_cuda_toolkit_dash)
                 \/ StartsWith(ret.packageName,
                               <<"c", "u", "d", "a", "-", "t", "o", "o", "l",
                                 "k", "i", "t", "=">>)

C29_Witness ==
  /\ call.fn = "findCudaRepoAndPackageLinux"
  /\ ret.done
  /\ call.osInfo.id = T_rhel
  /\ call.cudaVersion = V_12_4_1
  /\ call.filesFetch = Fetched(<< F_repo_a, P_rpm_toolkit, P_rpm_cuda >>)
  /\ ret.selectedPackage = P_rpm_toolkit
  /\ ret.packageName = T_cuda_toolkit_dash \o V_12_4_1 \o <<"-", "1">>

(***************************************************************************)
(* Properties of installCudaLocal.                                         *)
(***************************************************************************)
\* C26: when the Linux standalone installer fails inside installCudaLocal,
\* the error that reaches the caller is that installer failure, whether the
\* log dump that follows succeeds or fails: the log dump neither replaces
\* the error nor turns the failure into a returned path.
C26_LogDumpKeepsError ==
  (/\ call.fn = "installCudaLocal"
   /\ ret.done
   /\ call.os = "linux"
   /\ call.world.url
   /\ call.world.download
   /\ ~call.world.exec \/ ~call.world.exists) =>
    /\ ret.result = "throw"
    /\ ret.error = (IF ~call.world.exec THEN "installer-command-failed"
                    ELSE "cuda-path-not-found")
    /\ ret.commands = <<"installer", "cat-log">>

C26_Witness ==
  /\ call.fn = "installCudaLocal"
  /\ ret.done
  /\ call.os = "linux"
  /\ call.world = [url |-> TRUE, download |-> TRUE, exec |-> FALSE,
                   exists |-> FALSE, log |-> FALSE]
  /\ ret.result = "throw"
  /\ ret.error = "installer-command-failed"

(***************************************************************************)
(* Properties of run(): the environment of a failed run.                   *)
(***************************************************************************)
\* The four variables of the environment.
Environment(e) == << e.PATH, e.CUDA_PATH, e.CUDA_HOME, e.LD_LIBRARY_PATH >>

\* C30: a run that ends in failure has made no environment mutation: PATH,
\* CUDA_PATH, CUDA_HOME and LD_LIBRARY_PATH are modified only after an
\* install step returned an installation path, and always before the outputs
\* are set.
C30_FailureLeavesEnvironment ==
  /\ [](runPc = "failed" =>
          /\ env \in HostEnvs
          /\ ~envSet
          /\ effects = <<>>
          /\ outputs = NoOutputs)
  /\ [][(runPc # "start" /\ Environment(env') # Environment(env)) =>
          /\ runPc = "installed"
          /\ cudaPath # NoPath
          /\ attempts # <<>>
          /\ runPc' = "done"]_vars
  /\ [](\A i, j \in 1..Len(effects) :
          (effects[i] \in {"addPath", "exportVariable"}
             /\ effects[j] = "setOutput") => i < j)
  /\ [](outputs # NoOutputs => envSet)

C30_Witness ==
  /\ runPc = "failed"
  /\ attempts = <<"network", "local">>
  /\ failures = <<"local-installation-error">>
  /\ pathExists
  /\ env \in HostEnvs
  /\ env.LD_LIBRARY_PATH # Unset

====
